---- MODULE Spec2Model ----
(***************************************************************************)
(* Contextual Cobweb (concept_formation/contextual_cobweb.py).             *)
(*                                                                         *)
(* The concept tree is a heap of node records addressed by their index in  *)
(* the sequence `nodes`; context handles (ContextInstance objects) live in *)
(* the sequence `ctxs`, and the instance dictionary paired with handle k   *)
(* in the window is insts[k].  Category utilities are computed by the      *)
(* Cobweb3 substrate, which is not part of the sources modelled here: the  *)
(* value of every category-utility evaluation is drawn from CUVals, and    *)
(* the code that ranks those values (two_best_children,                    *)
(* get_best_operation, the comparisons of the driver) is modelled as       *)
(* written.                                                                *)
(***************************************************************************)
EXTENDS Integers, Sequences, FiniteSets, TLC

\* ------------------------------------------------------------------ bounds
\* longest input sequence handed to one contextual_cobweb call
MaxLen == 3
\* largest context_size handed to a call
MaxCtx == 1
\* instances (context handles) created over all calls
MaxInstances == 4
\* sweeps of the stabilization loop the model follows (`iterations`)
MaxIter == 2
\* contextual_cobweb calls on one tree
MaxCalls == 2
\* largest depth_left handed to a direct merge_contexts call
MaxMergeDepth == 1
\* highest category-utility score the substrate hands back (scores 0..MaxCU)
MaxCU == 1

\* ------------------------------------------------------- program constants
None == 0
compaction_period == 200
depth_cap == 6
merge_depth == depth_cap + 2

ca_key == "#Ctxt#"
Attrs == {"a"}
Vals == {"x"}
CUVals == 0..MaxCU

\* the attribute dictionaries an input instance may be (attributes may be
\* missing): every function from a subset of Attrs to Vals
InstanceSet == UNION {[S -> Vals] : S \in SUBSET Attrs}

\* The driver reads the attributes of an instance when it commits it; before
\* that only the substrate's category utilities depend on them.  The model
\* draws the dictionary of an input instance from InstanceSet at that first
\* read, and shows "unread" until then.
Unread == "unread"

\* the context_key arguments a caller may pass
ContextKeys == {"symmetric_window", "past_window", "future_window"}

\* what a query hands back to its caller, as strings: Python's None, True
\* and False, a raised NotImplementedError, or a nominal value
PyNone == "None"
PyBool(b) == IF b THEN "True" ELSE "False"
NotImplementedError == "NotImplementedError"

\* the values the substrate's predict can return for an attribute
SubstrateValues == Vals \cup {PyNone}

Range(s) == {s[i] : i \in DOMAIN s}

\* Counter(list): the multiset of a list of context handles
SeqToCounter(s) ==
  [h \in Range(s) |-> Cardinality({i \in DOMAIN s : s[i] = h})]

EmptyCounter == [h \in {} |-> 0]

\* Counter[h]: a missing key counts 0
CounterGet(c, h) == IF h \in DOMAIN c THEN c[h] ELSE 0

\* Counter.update(other)
CounterUpdate(c, d) ==
  [h \in DOMAIN c \cup DOMAIN d |-> CounterGet(c, h) + CounterGet(d, h)]

RECURSIVE SumOver(_, _)
SumOver(f, S) ==
  IF S = {} THEN 0
  ELSE LET x == CHOOSE y \in S : TRUE IN f[x] + SumOver(f, S \ {x})

\* sum(counter.values())
CounterTotal(c) == SumOver(c, DOMAIN c)

\* list.remove(x)
Remove(s, x) == SelectSeq(s, LAMBDA y : y # x)

\* list.index(x), 1-based
IndexOf(s, x) == CHOOSE i \in DOMAIN s : s[i] = x

VARIABLES
  nodes,      \* heap of ContextualCobwebNode records
  root,       \* tree.root
  ctxs,       \* heap of ContextInstance records
  insts,      \* insts[k]: the instance dictionary paired with handle k
  pc,         \* "idle" | "stabilize" | "commit" | "done" | "failed"
  instances,  \* argument of the running call: the input list
  context_size,
  learning,
  window,     \* deque of handle ids (the (inst, ctx) pairs)
  fixed,      \* the list the call returns
  next_to_initialize,
  index,      \* position of the cycle over the window
  last_changed,
  looped,
  records,
  iterations,
  window_cu,  \* __cu_for_window of the window as it stands, once computed
  actions,
  log,        \* history: the handles the running call committed, in order
  ops,        \* history: what the last commit did to the tree
  calls,      \* history: contextual_cobweb calls made so far
  context_key, \* the context_key argument of the last call
  tree_params, \* the parameters of the tree object
  result      \* what the last query or infer_from_context call returned

vars == <<nodes, root, ctxs, insts, pc, instances, context_size, learning,
          window, fixed, next_to_initialize, index, last_changed, looped,
          records, iterations, window_cu, actions, log, ops, calls,
          context_key, tree_params, result>>

\* ------------------------------------------------------------------ nodes
EmptyAV == [a \in Attrs |-> [v \in Vals |-> 0]]

\* ContextualCobwebNode() with no counts
NewNode ==
  [count |-> 0, av |-> EmptyAV, hasCtx |-> FALSE, ctxCounts |-> EmptyCounter,
   context_size |-> 0, children |-> <<>>, parent |-> None,
   descendants |-> {}, context |-> None]

\* attrs(): the non-context attribute keys of av_counts
NodeAttrs(n) == {a \in Attrs : \E v \in Vals : n.av[a][v] > 0}

\* an instance record carries the field ca when the dictionary has the
\* key ca_key; the driver sets it on every instance it handles
HasCtx(inst) == "ca" \in DOMAIN inst

CtxOf(inst) == IF HasCtx(inst) THEN inst.ca ELSE <<>>

\* increment_counts without `self.context_size += len(instance[attr])`
IncrementCountsDropCtxSize(n, inst) ==
  [n EXCEPT !.count = @ + 1,
            !.hasCtx = @ \/ HasCtx(inst),
            !.ctxCounts = CounterUpdate(@, SeqToCounter(CtxOf(inst))),
            !.av = [a \in Attrs |->
                      IF a \in DOMAIN inst.attrs
                      THEN [n.av[a] EXCEPT ![inst.attrs[a]] = @ + 1]
                      ELSE n.av[a]]]

\* increment_counts on one node record; inst = [attrs, ca]
IncrementCounts(n, inst) ==
  [n EXCEPT !.count = @ + 1,
            !.hasCtx = @ \/ HasCtx(inst),
            !.ctxCounts = CounterUpdate(@, SeqToCounter(CtxOf(inst))),
            !.context_size = @ + Len(CtxOf(inst)),
            !.av = [a \in Attrs |->
                      IF a \in DOMAIN inst.attrs
                      THEN [n.av[a] EXCEPT ![inst.attrs[a]] = @ + 1]
                      ELSE n.av[a]]]

\* increment_all_counts that stops at the node itself
IncrementOnlySelf(ns, id, inst) ==
  [ns EXCEPT ![id] = IncrementCounts(ns[id], inst)]

\* increment_all_counts: the node and all its ancestors
RECURSIVE IncrementAllCounts(_, _, _)
IncrementAllCounts(ns, id, inst) ==
  LET ns1 == [ns EXCEPT ![id] = IncrementCounts(ns[id], inst)]
  IN IF ns[id].parent # None
     THEN IncrementAllCounts(ns1, ns[id].parent, inst)
     ELSE ns1

\* update_counts_from_node without the loop over the nominal values
UpdateCountsNoValues(self, node) ==
  [self EXCEPT
     !.count = @ + node.count,
     !.descendants = @ \cup node.descendants,
     !.hasCtx = @ \/ node.hasCtx,
     !.ctxCounts = IF node.hasCtx THEN CounterUpdate(@, node.ctxCounts)
                   ELSE @,
     !.context_size = IF node.hasCtx THEN @ + node.context_size ELSE @]

\* update_counts_from_node without the descendants registry
UpdateCountsNoDescendants(self, node) ==
  [self EXCEPT
     !.count = @ + node.count,
     !.hasCtx = @ \/ node.hasCtx,
     !.ctxCounts = IF node.hasCtx THEN CounterUpdate(@, node.ctxCounts)
                   ELSE @,
     !.context_size = IF node.hasCtx THEN @ + node.context_size ELSE @,
     !.av = [a \in Attrs |-> [v \in Vals |-> self.av[a][v] + node.av[a][v]]]]

\* update_counts_from_node: self += node
UpdateCountsFromNode(self, node) ==
  [self EXCEPT
     !.count = @ + node.count,
     !.descendants = @ \cup node.descendants,
     !.hasCtx = @ \/ node.hasCtx,
     !.ctxCounts = IF node.hasCtx THEN CounterUpdate(@, node.ctxCounts)
                   ELSE @,
     !.context_size = IF node.hasCtx THEN @ + node.context_size ELSE @,
     !.av = [a \in Attrs |-> [v \in Vals |-> self.av[a][v] + node.av[a][v]]]]

\* -------------------------------------------------------- context handles
\* ContextInstance: instance, tenative_path (None once committed), unadded()
SetPath(path) ==
  [instance |-> path[Len(path)], tenative_path |-> Range(path),
   unadded |-> TRUE]

\* set_path_from_set(old_path, old_inst)
SetPathFromSet(set_path, inst) ==
  [instance |-> inst, tenative_path |-> set_path, unadded |-> TRUE]

InsertIntoPath(c, node) == [c EXCEPT !.tenative_path = @ \cup {node}]

Unadded(c) == c.unadded

UnaddedLeaf(c, node) == c.unadded /\ c.instance = node

\* desc_of(node) on the heap ns
DescOf(ns, c, node) ==
  IF c.unadded THEN node \in c.tenative_path
  ELSE c.instance \in ns[node].descendants

\* the node and its ancestors
RECURSIVE Ancestors(_, _)
Ancestors(ns, id) ==
  IF ns[id].parent = None THEN {id}
  ELSE {id} \cup Ancestors(ns, ns[id].parent)

\* A heap H is [nodes, root, ctxs, err, ops]; err is set when an assertion or
\* an exception aborts the running call, ops collects the names of the
\* operations add_by_path performed on it ("new", "match", "fringe", "merge",
\* "split").
Heap(ns, r, cs) ==
  [nodes |-> ns, root |-> r, ctxs |-> cs, err |-> FALSE, ops |-> {}]

Did(H, op) == [H EXCEPT !.ops = @ \cup {op}]

Fail(H) == [H EXCEPT !.err = TRUE]

\* node joins the descendants of id and of every ancestor of id
RECURSIVE AddDescendant(_, _, _)
AddDescendant(ns, id, node) ==
  LET ns1 == [ns EXCEPT ![id].descendants = @ \cup {node}]
  IN IF ns[id].parent = None THEN ns1
     ELSE AddDescendant(ns1, ns[id].parent, node)

\* set_instance(node): commit handle h to node and register node in the
\* descendants of node and of its ancestors; returns the heap (the node
\* returned by the code is `node`)
SetInstance(H, h, node) ==
  [H EXCEPT
     !.ctxs[h] = [instance |-> node, tenative_path |-> {},
                  unadded |-> FALSE],
     !.nodes = [AddDescendant(H.nodes, node, node) EXCEPT
                  ![node].context = h]]

\* ---------------------------------------------------- structural operators
NewId(H) == Len(H.nodes) + 1

\* create_new_child(instance): the new leaf is NewId(H)
CreateNewChild(H, self, inst) ==
  LET id == NewId(H)
      leaf == IncrementCounts([NewNode EXCEPT !.parent = self], inst)
  IN [H EXCEPT !.nodes =
        Append([H.nodes EXCEPT ![self].children = Append(@, id)], leaf)]

\* create_new_leaf(instance, context_wrapper)
CreateNewLeaf(H, self, inst, h) ==
  SetInstance(CreateNewChild(H, self, inst), h, NewId(H))

\* insert_parent_with_current_counts(update_root=False)
InsertParentKeepRoot(H, self) ==
  LET id == NewId(H)
      me == H.nodes[self]
      new == [UpdateCountsFromNode(NewNode, me) EXCEPT
                !.parent = me.parent, !.children = <<self>>]
      ns1 == IF me.parent # None
             THEN [H.nodes EXCEPT
                     ![me.parent].children[
                        IndexOf(H.nodes[me.parent].children, self)] = id]
             ELSE H.nodes
      ns2 == [ns1 EXCEPT ![self].parent = id]
  IN [H EXCEPT !.nodes = Append(ns2, new)]

\* a fringe split that pushes the counts down into a child of the leaf
\* instead of inserting a parent above it
CreateChildBelow(H, self) ==
  LET id == NewId(H)
      child == [UpdateCountsFromNode(NewNode, H.nodes[self]) EXCEPT
                  !.parent = self]
  IN [H EXCEPT !.nodes =
        Append([H.nodes EXCEPT ![self].children = Append(@, id)], child)]

\* insert_parent_with_current_counts(): the new parent is NewId(H).  With
\* count = 0 the code returns None and the caller's new.create_new_leaf
\* raises.
InsertParentWithCurrentCounts(H, self) ==
  LET id == NewId(H)
      me == H.nodes[self]
      new == [UpdateCountsFromNode(NewNode, me) EXCEPT
                !.parent = me.parent, !.children = <<self>>]
      ns1 == IF me.parent # None
             THEN [H.nodes EXCEPT
                     ![me.parent].children[
                        IndexOf(H.nodes[me.parent].children, self)] = id]
             ELSE H.nodes
      ns2 == [ns1 EXCEPT ![self].parent = id]
  IN IF ~(me.count > 0) THEN Fail(H)
     ELSE [H EXCEPT !.nodes = Append(ns2, new),
                    !.root = IF me.parent = None THEN id ELSE @]

\* merge(best1, best2): the merge node is NewId(H)
Merge(H, self, best1, best2) ==
  LET id == NewId(H)
      kids == H.nodes[self].children
      new == [UpdateCountsFromNode(
                UpdateCountsFromNode(NewNode, H.nodes[best1]),
                H.nodes[best2])
              EXCEPT !.parent = self, !.children = <<best1, best2>>]
      ns1 == [H.nodes EXCEPT
                ![best1].parent = id,
                ![best2].parent = id,
                ![self].children = Append(Remove(Remove(@, best1), best2), id)]
  IN IF best1 \notin Range(kids) \/ best2 \notin Range(kids)
     THEN Fail(H)
     ELSE [H EXCEPT !.nodes = Append(ns1, new)]

\* the nodes of kids get the parent p
RECURSIVE Reparent(_, _, _)
Reparent(ns, kids, p) ==
  IF kids = <<>> THEN ns
  ELSE Reparent([ns EXCEPT ![Head(kids)].parent = p], Tail(kids), p)

\* split(best): best's children move up to self, best is dropped
Split(H, self, best) ==
  LET kids == H.nodes[self].children
      moved == H.nodes[best].children
  IN IF best \notin Range(kids)
     THEN Fail(H)
     ELSE [H EXCEPT !.nodes =
             [Reparent(H.nodes, moved, self) EXCEPT
                ![self].children = Remove(kids, best) \o moved]]

\* tree_iterator(node): the nodes of the subtree below id
RECURSIVE TreeNodes(_, _)
TreeNodes(ns, id) ==
  {id} \cup UNION {TreeNodes(ns, ns[id].children[i]) :
                     i \in DOMAIN ns[id].children}

\* ------------------------------------------------- ranking of the scores
\* two_best_children: rel[i] is the relative category utility the substrate
\* gives for inserting into children[i].  The children are sorted by
\* (relative cu, count), largest first; the sort is stable.
SortsBefore(n, ns, rel, i, j) ==
  LET ci == ns[n.children[i]].count
      cj == ns[n.children[j]].count
  IN \/ rel[i] > rel[j]
     \/ rel[i] = rel[j] /\ ci > cj
     \/ rel[i] = rel[j] /\ ci = cj /\ i < j

TwoBestChildren(n, ns, rel) ==
  LET I == DOMAIN n.children
      i1 == CHOOSE i \in I : \A j \in I \ {i} : SortsBefore(n, ns, rel, i, j)
      i2 == CHOOSE i \in I \ {i1} :
              \A j \in I \ {i1, i} : SortsBefore(n, ns, rel, i, j)
  IN IF Len(n.children) = 1
     THEN [best1 |-> n.children[1], best2 |-> None]
     ELSE [best1 |-> n.children[i1], best2 |-> n.children[i2]]

\* the priorities get_best_operation sorts ties by
\* priorities under which a merge comes before a split
OpPriorityMergeFirst(op) ==
  CASE op = "best" -> 3 [] op = "new" -> 2 [] op = "merge" -> 1
    [] op = "split" -> 0

OpPriority(op) ==
  CASE op = "best" -> 3 [] op = "new" -> 2 [] op = "split" -> 1
    [] op = "merge" -> 0

\* a get_best_operation that scores a merge whenever there is a second child
OperationsScoredAnyMerge(n, ns, best1, best2, possible_ops) ==
  {op \in possible_ops :
     \/ op = "best"
     \/ op = "new"
     \/ op = "merge" /\ best2 # None
     \/ op = "split" /\ Len(ns[best1].children) > 0}

\* get_best_operation: score[op] is the category utility the substrate gives
\* for "new", "merge", "split"; the result is [cu, op], op = "IndexError"
\* when no operation was scored
OperationsScored(n, ns, best1, best2, possible_ops) ==
  {op \in possible_ops :
     \/ op = "best"
     \/ op = "new"
     \/ op = "merge" /\ Len(n.children) > 2 /\ best2 # None
     \/ op = "split" /\ Len(ns[best1].children) > 0}

GetBestOperation(n, ns, best1, best2, best1_cu, possible_ops, score) ==
  LET operations == OperationsScored(n, ns, best1, best2, possible_ops)
      cu(op) == IF op = "best" THEN best1_cu ELSE score[op]
      first == CHOOSE op \in operations : \A o \in operations \ {op} :
                 \/ cu(op) > cu(o)
                 \/ cu(op) = cu(o) /\ OpPriority(op) > OpPriority(o)
  IN IF operations = {} THEN [cu |-> 0, op |-> "IndexError"]
     ELSE [cu |-> cu(first), op |-> first]

\* the scores the substrate can give at node id for one instance
LevelScores(ns, id) ==
  [rel : [DOMAIN ns[id].children -> CUVals], best1_cu : CUVals,
   new_cu : CUVals]

\* what one level of the descent decides at node id under the scores sc:
\* [current, action_cu, best1_cu, best2, best1, op]
LevelChoice(ns, id, sc) ==
  LET n == ns[id]
      tb == TwoBestChildren(n, ns, sc.rel)
      bo == GetBestOperation(n, ns, tb.best1, tb.best2, sc.best1_cu,
                             {"best", "new"}, [op \in {"new"} |-> sc.new_cu])
  IN [current |-> id, action_cu |-> bo.cu, best1_cu |-> sc.best1_cu,
      best2 |-> tb.best2, best1 |-> tb.best1, op |-> bo.op]

\* what one level of the descent can decide at node id, over all the scores
\* the substrate may give
LevelChoices(ns, id) == {LevelChoice(ns, id, sc) : sc \in LevelScores(ns, id)}

\* the decision of one level of the descent under the scores sc
DecideLevel(ns, id, sc) ==
  LET n == ns[id]
      tb == TwoBestChildren(n, ns, sc.rel)
      bo == GetBestOperation(n, ns, tb.best1, tb.best2, sc.best1_cu,
                             {"best", "new"}, [op \in {"new"} |-> sc.new_cu])
  IN [best1 |-> tb.best1, op |-> bo.op]

\* cobweb_path(instance): the paths the descent can return
RECURSIVE CobwebPathFrom(_, _)
CobwebPathFrom(ns, current) ==
  IF ns[current].children = <<>> THEN {<<current>>}
  ELSE LET choices == LevelChoices(ns, current)
           stops == {<<current>> : c \in {x \in choices : x.op # "best"}}
           goes == {c.best1 : c \in {x \in choices : x.op = "best"}}
       IN stops \cup UNION {{<<current>> \o p : p \in CobwebPathFrom(ns, b)} :
                            b \in goes}

CobwebPath(ns, r) == CobwebPathFrom(ns, r)

\* cobweb_path(instance) together with the scores the substrate gave on the
\* way: [path, scores], scores[id] for every node the descent decided at
RECURSIVE CobwebPathScoredFrom(_, _)
CobwebPathScoredFrom(ns, current) ==
  IF ns[current].children = <<>>
  THEN {[path |-> <<current>>, scores |-> <<>>]}
  ELSE UNION {LET d == DecideLevel(ns, current, sc)
                  here == <<[node |-> current, sc |-> sc]>>
              IN IF d.op = "best"
                 THEN {[path |-> <<current>> \o r.path,
                        scores |-> here \o r.scores] :
                       r \in CobwebPathScoredFrom(ns, d.best1)}
                 ELSE {[path |-> <<current>>, scores |-> here]} :
              sc \in LevelScores(ns, current)}

\* cobweb_path(instance) called again for the same instance: the substrate
\* answers the questions it was asked before as it did before
RECURSIVE CobwebPathReplayFrom(_, _, _)
CobwebPathReplayFrom(ns, current, scores) ==
  IF ns[current].children = <<>> THEN {<<current>>}
  ELSE LET known == {i \in DOMAIN scores : scores[i].node = current}
           answers == IF known = {} THEN LevelScores(ns, current)
                      ELSE {scores[i].sc : i \in known}
       IN UNION {LET d == DecideLevel(ns, current, sc)
                 IN IF d.op = "best"
                    THEN {<<current>> \o q :
                          q \in CobwebPathReplayFrom(ns, d.best1, scores)}
                    ELSE {<<current>>} :
                 sc \in answers}

\* what the loop of cobweb_path writes to the node it visits, with a
\* descent that counts the instance in as it goes down
VisitNodeCounting(ns, id) == [ns EXCEPT ![id].count = @ + 1]

\* what the loop of cobweb_path writes to the node it visits (lines
\* 286-304): nothing
VisitNode(ns, id) == ns

\* the heap after cobweb_path returned path
RECURSIVE Visited(_, _)
Visited(ns, path) ==
  IF path = <<>> THEN ns
  ELSE Visited(VisitNode(ns, Head(path)), Tail(path))

\* initial_path(instance)
InitialPath(ns, r) == CobwebPath(ns, r)

\* an action tuple that names the node the descent goes on to as current
ActionTupleBelow(c) ==
  [current |-> c.best1, action_cu |-> c.action_cu,
   best1_cu |-> c.best1_cu, best2 |-> c.best2, best1 |-> c.best1]

\* (current, action_cu, best1_cu, best2, best1), line 329
ActionTuple(c) ==
  [current |-> c.current, action_cu |-> c.action_cu,
   best1_cu |-> c.best1_cu, best2 |-> c.best2, best1 |-> c.best1]

\* cobweb_path_and_restructurings(instance), [path, actions], where the
\* substrate answers the questions listed in scores as it is listed there
RECURSIVE CobwebPathAndRestructuringsScoredFrom(_, _, _)
CobwebPathAndRestructuringsScoredFrom(ns, current, scores) ==
  IF ns[current].children = <<>>
  THEN {[path |-> <<current>>, actions |-> <<>>]}
  ELSE LET known == {i \in DOMAIN scores : scores[i].node = current}
           answers == IF known = {} THEN LevelScores(ns, current)
                      ELSE {scores[i].sc : i \in known}
           choices == {LevelChoice(ns, current, sc) : sc \in answers}
           stops == {[path |-> <<current>>, actions |-> <<ActionTuple(c)>>] :
                       c \in {x \in choices : x.op = "new"}}
           goes(b) ==
             LET below == CobwebPathAndRestructuringsScoredFrom(ns, b, scores)
             IN UNION {{[path |-> <<current>> \o r.path,
                         actions |-> <<ActionTuple(c)>> \o r.actions] :
                        r \in below} :
                       c \in {x \in choices : x.op # "new" /\ x.best1 = b}}
       IN stops \cup UNION {goes(b) : b \in {c.best1 : c \in choices}}

\* cobweb_path_and_restructurings(instance): [path, actions]
CobwebPathAndRestructuringsFrom(ns, current) ==
  CobwebPathAndRestructuringsScoredFrom(ns, current, <<>>)

CobwebPathAndRestructurings(ns, r) == CobwebPathAndRestructuringsFrom(ns, r)

\* __path_eq(set_path, tup_path)
PathEq(set_path, tup_path) ==
  /\ Len(tup_path) = Cardinality(set_path)
  /\ \A i \in DOMAIN tup_path : tup_path[i] \in set_path

\* ------------------------------------------------------- is_exact_match
\* instance[ca_key] != attr_counts.keys(): a list compared with a keys view;
\* Python never finds the two equal
ListEqualsKeys(list, counts) == FALSE

IsExactMatch(n, inst) ==
  LET instance_attrs == DOMAIN inst.attrs
                          \cup (IF HasCtx(inst) THEN {ca_key} ELSE {})
      self_attrs == NodeAttrs(n) \cup (IF n.hasCtx THEN {ca_key} ELSE {})
      AttrMatches(attr) ==
        IF attr = ca_key
        THEN /\ ListEqualsKeys(CtxOf(inst), n.ctxCounts)
             /\ \A h \in DOMAIN n.ctxCounts : n.ctxCounts[h] = n.count
        ELSE n.av[attr][inst.attrs[attr]] = n.count
  IN /\ self_attrs = instance_attrs
     /\ \A attr \in self_attrs : AttrMatches(attr)

\* --------------------------------------------- rewrites of the window
\* __fringe_split_update(fringe_leaf, unadded_ctxts), from window entry i on
RECURSIVE FringeSplitUpdate(_, _, _, _)
FringeSplitUpdate(H, fringe_leaf, W, i) ==
  IF i > Len(W) THEN H
  ELSE LET c == H.ctxs[W[i]]
       IN IF ~Unadded(c) THEN Fail(H)
          ELSE IF fringe_leaf \in c.tenative_path
                  /\ ~UnaddedLeaf(c, fringe_leaf)
          THEN Fail(H)
          ELSE IF UnaddedLeaf(c, fringe_leaf)
          THEN FringeSplitUpdate(
                 [H EXCEPT !.ctxs[W[i]] =
                    [InsertIntoPath(c, H.nodes[fringe_leaf].parent)
                     EXCEPT !.instance = H.nodes[c.instance].parent]],
                 fringe_leaf, W, i + 1)
          ELSE FringeSplitUpdate(H, fringe_leaf, W, i + 1)

\* a __merge_update that rewrites only the handles that passed through node1
RECURSIVE MergeUpdateFirstOnly(_, _, _, _, _)
MergeUpdateFirstOnly(H, node1, node2, W, i) ==
  IF i > Len(W) THEN H
  ELSE LET c == H.ctxs[W[i]]
       IN IF ~Unadded(c) THEN Fail(H)
          ELSE IF DescOf(H.nodes, c, node1)
          THEN MergeUpdateFirstOnly(
                 [H EXCEPT !.ctxs[W[i]] =
                    InsertIntoPath(c, H.nodes[node1].parent)],
                 node1, node2, W, i + 1)
          ELSE MergeUpdateFirstOnly(H, node1, node2, W, i + 1)

\* __merge_update(node1, node2, unadded_ctxts)
RECURSIVE MergeUpdate(_, _, _, _, _)
MergeUpdate(H, node1, node2, W, i) ==
  IF i > Len(W) THEN H
  ELSE LET c == H.ctxs[W[i]]
       IN IF ~Unadded(c) THEN Fail(H)
          ELSE IF DescOf(H.nodes, c, node1) \/ DescOf(H.nodes, c, node2)
          THEN MergeUpdate(
                 [H EXCEPT !.ctxs[W[i]] =
                    InsertIntoPath(c, H.nodes[node1].parent)],
                 node1, node2, W, i + 1)
          ELSE MergeUpdate(H, node1, node2, W, i + 1)

\* __split_update(dead_node, unadded_ctxts)
RECURSIVE SplitUpdate(_, _, _, _)
SplitUpdate(H, dead_node, W, i) ==
  IF i > Len(W) THEN H
  ELSE LET c == H.ctxs[W[i]]
       IN IF ~Unadded(c) THEN Fail(H)
          ELSE IF c.instance = dead_node
          THEN SplitUpdate(
                 [H EXCEPT !.ctxs[W[i]].instance = H.nodes[dead_node].parent],
                 dead_node, W, i + 1)
          ELSE SplitUpdate(H, dead_node, W, i + 1)

\* --------------------------------------------------------------- commit
\* a level that also leaves the tree alone only when the operation scores
\* below the recorded action
KeepsActionIfWorse(new_action_cu, action_cu) == new_action_cu < action_cu

\* `if new_action_cu <= action_cu: continue` (lines 410-411)
KeepsAction(new_action_cu, action_cu) == new_action_cu <= action_cu

\* one pass of the loop of increment_and_restructure over the action t:
\* the heaps it can leave, over the scores the substrate may give
RestructureLevel(H, t, W) ==
  LET cur == H.nodes[t.current]
  IN IF Len(cur.children) <= 2 /\ Len(H.nodes[t.best1].children) = 0
     THEN {H}
     ELSE {LET bo == GetBestOperation(cur, H.nodes, t.best1, t.best2,
                                      t.best1_cu, {"split", "merge"}, score)
           IN IF bo.op = "IndexError" THEN Fail(H)
              ELSE IF KeepsAction(bo.cu, t.action_cu) THEN H
              ELSE IF bo.op = "merge"
              THEN IF ~(Len(cur.children) > 2) THEN Fail(H)
                   ELSE LET H1 == Merge(H, t.current, t.best1, t.best2)
                        IN IF H1.err THEN H1
                           ELSE MergeUpdate(Did(H1, "merge"),
                                            t.best1, t.best2, W, 1)
              ELSE IF ~(Len(H.nodes[t.best1].children) > 1) THEN Fail(H)
                   ELSE LET H1 == Split(H, t.current, t.best1)
                        IN IF H1.err THEN H1
                           ELSE SplitUpdate(Did(H1, "split"), t.best1, W, 1) :
           score \in [{"split", "merge"} -> CUVals]}

\* the actions i, i-1, ..., 1 (reversed(actions))
RECURSIVE RestructureFrom(_, _, _, _)
RestructureFrom(H, acts, W, i) ==
  IF i = 0 \/ H.err THEN {H}
  ELSE UNION {RestructureFrom(H1, acts, W, i - 1) :
              H1 \in RestructureLevel(H, acts[i], W)}

\* increment_and_restructure(instance, where_to_add, actions, unadded_window)
IncrementAndRestructure(H, inst, where_to_add, acts, W) ==
  RestructureFrom(
    [H EXCEPT !.nodes = IncrementAllCounts(H.nodes, where_to_add, inst)],
    acts, W, Len(acts))

\* the third branch of add_by_path (line 371): where_to_add is a leaf that
\* holds instances and is no exact match
IsFringeSplit(H, inst, h) ==
  LET n == H.nodes[H.ctxs[h].instance]
  IN /\ n.children = <<>>
     /\ ~(n.count = 0 \/ IsExactMatch(n, inst))

\* lines 374-381 of add_by_path: the heap after __fringe_split_update
FringeSplit(H, inst, h, W) ==
  LET where_to_add == H.ctxs[h].instance
      new == NewId(H)
      H1 == InsertParentWithCurrentCounts(H, where_to_add)
      H2 == CreateNewLeaf(H1, new, inst, h)
  IN FringeSplitUpdate(Did(H2, "fringe"), where_to_add, W, 1)

\* an add_by_path that leaves the last recorded action as it was
KeepLastAction(acts, new) == acts

\* lines 383-385: the last recorded action gets the new node as its best1
RewriteLastAction(acts, new) ==
  IF acts # <<>>
  THEN [acts EXCEPT ![Len(acts)].best1 = new]
  ELSE acts

\* add_by_path up to its call of increment_and_restructure (lines 363-385):
\* the heap, the node the counts are incremented from, and the actions
AddLeaf(H, inst, h, acts, W) ==
  LET where_to_add == H.ctxs[h].instance
      n == H.nodes[where_to_add]
  IN IF n.children # <<>>
     THEN [H |-> Did(CreateNewLeaf(H, where_to_add, inst, h), "new"),
           where_to_add |-> where_to_add, actions |-> acts]
     ELSE IF ~IsFringeSplit(H, inst, h)
     THEN [H |-> Did(SetInstance(H, h, where_to_add), "match"),
           where_to_add |-> where_to_add, actions |-> acts]
     ELSE LET new == NewId(H)
              H1 == InsertParentWithCurrentCounts(H, where_to_add)
          IN [H |-> IF H1.err THEN H1 ELSE FringeSplit(H, inst, h, W),
              where_to_add |-> new,
              actions |-> RewriteLastAction(acts, new)]

\* add_by_path(instance, context, actions, unadded_window): the heaps it can
\* leave; the leaf it returns is the instance of handle h in that heap
AddByPath(H, inst, h, acts, W) ==
  LET a == AddLeaf(H, inst, h, acts, W)
  IN IF a.H.err THEN {a.H}
     ELSE IncrementAndRestructure(a.H, inst, a.where_to_add, a.actions, W)

\* ------------------------------------------------------- merge_contexts
\* the nodes __merge_context_helper reaches with depth_left = 0
RECURSIVE NodesAtDepth(_, _, _)
NodesAtDepth(ns, id, depth_left) ==
  IF depth_left = 0 THEN {id}
  ELSE UNION {NodesAtDepth(ns, ns[id].children[i], depth_left - 1) :
                i \in DOMAIN ns[id].children}

\* the descendants of node m that still carry a context
WithContext(ns, m) == {x \in ns[m].descendants : ns[x].context # None}

\* merge_contexts(depth_left): the heaps it can leave.  The representative of
\* each subtree is the first element an iteration over a set yields, which is
\* any of them.
MergeContexts(H, depth_left) ==
  LET ns == H.nodes
      M == {m \in NodesAtDepth(ns, H.root, depth_left) :
              WithContext(ns, m) # {}}
  IN {LET olds == UNION {WithContext(ns, m) \ {rep[m]} : m \in M}
          repOf(x) == rep[CHOOSE m \in M : x \in WithContext(ns, m)]
          \* update_mapping: old context -> representative context
          mapped == {ns[x].context : x \in olds}
          target(h) == LET x == CHOOSE y \in olds : ns[y].context = h
                       IN ns[repOf(x)].context
          rewrite(c) ==
            [h \in (DOMAIN c \ mapped) \cup {target(o) : o \in mapped} |->
               (IF h \in mapped THEN 0 ELSE CounterGet(c, h))
               + SumOver([o \in mapped |-> CounterGet(c, o)],
                         {o \in mapped : target(o) = h})]
          tree == TreeNodes(ns, H.root)
      IN IF olds = {} THEN H
         ELSE IF \E id \in tree : ~ns[id].hasCtx
         THEN Fail([H EXCEPT !.nodes =
                 [id \in DOMAIN ns |->
                    IF id \in olds THEN [ns[id] EXCEPT !.context = None]
                    ELSE ns[id]]])
         ELSE [H EXCEPT !.nodes =
                 [id \in DOMAIN ns |->
                    LET n1 == IF id \in olds
                              THEN [ns[id] EXCEPT !.context = None]
                              ELSE ns[id]
                    IN IF id \in tree
                       THEN [n1 EXCEPT !.ctxCounts = rewrite(@)]
                       ELSE n1]] :
      rep \in {f \in [M -> DOMAIN ns] :
                 \A m \in M : f[m] \in WithContext(ns, m)}}

\* -------------------------------------------------------------- driver
Min(a, b) == IF a < b THEN a ELSE b

\* __update_if_better: old_cu and new_cu are the window utilities the
\* substrate gives before and after set_path(new_path)
UpdateIfNotWorse(old_cu, new_cu) == new_cu >= old_cu

UpdateIfBetter(old_cu, new_cu) == new_cu > old_cu

\* an __update_if_better that leaves the refused path in the handle
RefusedPathKept(ctxt, new_path) == SetPath(new_path)

\* __update_if_better returning False (lines 222-233): old_path and old_inst
\* are read, set_path(new_path) is tried, and the handle is put back
RefusedPath(ctxt, new_path) ==
  LET old_path == ctxt.tenative_path
      old_inst == ctxt.instance
  IN SetPathFromSet(old_path, old_inst)

\* no __cu_for_window value of the window as it stands is known yet
NotComputed == 0 - 1

\* __cu_for_window(window), line 246: a sum of the substrate's
\* cu_for_new_child over the window, a function of the tree and of the
\* paths of the window's handles; cu is the value it had for the window as
\* it stands, if it was computed
CuForWindow(cu) == IF cu = NotComputed THEN CUVals ELSE {cu}

\* window.pop(): the right-most entry
PopRightEntry(w) == w[Len(w)]

\* window.popleft(): the entry taken, and what is left
PopLeftEntry(w) == Head(w)

PopLeftRest(w) == Tail(w)

\* the head of `while window:` (lines 150-162): merge_contexts every
\* compaction_period instances, then the loop variables of the cycle.
\* `actions` keeps the value of the previous commit there; the first pass of
\* the cycle overwrites it before any use, and the model clears it.
WhileHead(H, w, nti) ==
  IF w # <<>> /\ nti % compaction_period = 0
  THEN MergeContexts(H, merge_depth)
  ELSE {H}

\* The loop variables are locals of the call: they hold their initial values
\* again once the call has returned or was aborted.
EnterLoop(H, w) ==
  /\ nodes' = H.nodes
  /\ root' = H.root
  /\ ctxs' = H.ctxs
  /\ window' = w
  /\ index' = 0
  /\ actions' = <<>>
  /\ looped' = FALSE
  /\ records' = {}
  /\ iterations' = 0
  /\ window_cu' = NotComputed
  /\ IF H.err
     THEN pc' = "failed" /\ last_changed' = 0
     ELSE IF w # <<>>
     THEN pc' = "stabilize" /\ last_changed' = Len(w) - 1
     ELSE pc' = "done" /\ last_changed' = 0

\* no query has returned since the last call
Operations == {"best", "new", "merge", "split"}

\* no get_best_operation call has returned
NoOperation ==
  [node |-> None, best1 |-> None, best2 |-> None, possible_ops |-> {},
   scored |-> {}, cus |-> [o \in Operations |-> 0], cu |-> 0]

NoResult ==
  [op |-> "none", attr |-> "", pred_ind |-> 0, ctx |-> <<>>, path |-> <<>>,
   path2 |-> <<>>, value |-> PyNone, substrate |-> PyNone,
   operation |-> NoOperation, actions |-> <<>>, node |-> None,
   guesses |-> [num |-> 0, den |-> 1]]

\* the values the constructor may be given
Weights == {0, 1}

Scalings == {"0.5", "False"}

\* ContextualCobwebTree(ctxt_weight, scaling, inner_attr_scaling), lines
\* 79-86
Construct(ctxt_weight, scaling, inner_attr_scaling) ==
  /\ nodes = <<[NewNode EXCEPT !.descendants = {1}]>>
  /\ root = 1
  /\ ctxs = <<>>
  /\ insts = <<>>
  /\ pc = "idle"
  /\ instances = <<>>
  /\ context_size = 0
  /\ learning = TRUE
  /\ window = <<>>
  /\ fixed = <<>>
  /\ next_to_initialize = 0
  /\ index = 0
  /\ last_changed = 0
  /\ looped = FALSE
  /\ records = {}
  /\ iterations = 0
  /\ window_cu = NotComputed
  /\ actions = <<>>
  /\ log = <<>>
  /\ ops = {}
  /\ calls = 0
  /\ context_key = "symmetric_window"
  /\ tree_params =
       [context_weight |-> ctxt_weight, scaling |-> scaling,
        inner_attr_scaling |-> inner_attr_scaling, attr_scales |-> {}]
  /\ result = NoResult

\* ContextualCobwebTree(): ctxt_weight=1, scaling=0.5,
\* inner_attr_scaling=True
Init == Construct(1, "0.5", TRUE)

\* instances[:context_size] in place of instances[:context_size + 1]
InitialWindowShort(n, cs) == Min(n, cs)

\* len(instances[:context_size + 1]), lines 142-145: the initial window
InitialWindowSize(n, cs) == Min(n, cs + 1)

\* handles one call creates for an input of length n
HandlesOfCall(n, cs) == IF n <= cs + 1 THEN n ELSE n - 1

\* The handles and instance dictionaries a learning=False call created are
\* referenced by the list it returned and by nothing in the tree; they are
\* gone once the caller drops that list, which is when it calls again.
Live(s) == IF learning THEN s ELSE SubSeq(s, 1, Len(s) - Len(fixed))

\* a call is made when the caller holds the tree: before the first call or
\* after a call has returned or was rejected at its entry
CallerHoldsTree ==
  pc \in {"idle", "done", "returned", "rejected", "cleared"}

\* a call that an assertion rejects before it touched anything (line 141,
\* line 480)
Rejected(key) ==
  /\ CallerHoldsTree
  /\ calls < MaxCalls
  /\ calls' = calls + 1
  /\ pc' = "rejected"
  /\ context_key' = key
  /\ UNCHANGED tree_params
  /\ result' = NoResult
  /\ UNCHANGED <<nodes, root, ctxs, insts, instances, context_size, learning,
                 window, fixed, next_to_initialize, index, last_changed,
                 looped, records, iterations, window_cu, actions, log, ops>>

\* assert context_key == 'symmetric_window' (line 141)
KeyAcceptedAlways(key) == TRUE

KeyAccepted(key) == key = "symmetric_window"

\* contextual_cobweb(instances, context_size, context_key, learning),
\* lines 141-162: the initial window and the head of the first pass
ContextualCobwebUpTo(n, cs, key, lrn, handles) ==
  IF ~KeyAccepted(key) THEN Rejected(key)
  ELSE
  /\ CallerHoldsTree
  /\ calls < MaxCalls
  /\ calls' = calls + 1
  /\ context_key' = key
  /\ UNCHANGED tree_params
  /\ result' = NoResult
  /\ Len(Live(ctxs)) + HandlesOfCall(n, cs) <= handles
  /\ LET m == InitialWindowSize(n, cs)
         base == Len(Live(ctxs))
     IN \E paths \in [1..m -> InitialPath(nodes, root)] :
          LET initial_contexts == [i \in 1..m |-> SetPath(paths[i])]
              w == [i \in 1..m |-> base + i]
              new_insts ==
                [i \in 1..m |->
                   [attrs |-> Unread,
                    ca |-> SubSeq(w, 1, i - 1) \o SubSeq(w, i + 1, m),
                    pos |-> i - 1]]
              H == Heap(nodes, root, Live(ctxs) \o initial_contexts)
          IN /\ insts' = Live(insts) \o new_insts
             /\ instances' = [i \in 1..n |-> Unread]
             /\ context_size' = cs
             /\ learning' = lrn
             /\ fixed' = <<>>
             /\ log' = <<>>
             /\ ops' = {}
             /\ next_to_initialize' = cs + 1
             /\ \E H1 \in WhileHead(H, w, cs + 1) : EnterLoop(H1, w)

ContextualCobweb(n, cs, key, lrn) ==
  ContextualCobwebUpTo(n, cs, key, lrn, MaxInstances)

\* assert context_key != 'past_window' or context_key != 'future_window'
\* (line 119)
IfitKeyAccepted(key) == key # "past_window" \/ key # "future_window"

\* contextual_ifit(instances, context_size, context_key) for n instances
ContextualIfit(n, cs, key) ==
  IF ~IfitKeyAccepted(key) THEN Rejected(key)
  ELSE ContextualCobweb(n, cs, key, TRUE)

\* infer_from_context(instances, context_size, context_key), lines 479-486,
\* for an input of n instances and one None
InferFromContext(n, cs, key) ==
  IF ~(n + 1 > 1) THEN Rejected(key)
  ELSE ContextualCobweb(n, cs, key, FALSE)

\* one pass of `for index, (inst, ctx) in cycle(enumerate(window))`,
\* lines 163-194
StabilizePass(capped) ==
  /\ pc = "stabilize"
  /\ (capped /\ index = 0) => iterations < MaxIter
  /\ LET k == window[index + 1]
         c == ctxs[k]
         new_record == [i \in DOMAIN window |-> ctxs[window[i]].instance]
         looped1 == IF index = 0 THEN looped \/ new_record \in records
                    ELSE looped
         results == IF index = 0
                    THEN CobwebPathAndRestructurings(nodes, root)
                    ELSE {[path |-> p, actions |-> actions] :
                            p \in CobwebPath(nodes, root)}
     IN \E r \in results :
        LET changed == ~PathEq(c.tenative_path, r.path)
        IN \E old_cu \in IF looped1 /\ changed THEN CuForWindow(window_cu)
                         ELSE {0},
              new_cu \in IF looped1 /\ changed THEN CUVals ELSE {0} :
          LET accept == IF looped1
                        THEN changed /\ UpdateIfBetter(old_cu, new_cu)
                        ELSE changed
              stop == ~accept /\ last_changed = index
          IN /\ iterations' = IF index = 0 THEN iterations + 1
                              ELSE iterations
             /\ window_cu' = IF ~(looped1 /\ changed) THEN window_cu
                             ELSE IF accept THEN new_cu ELSE old_cu
             /\ records' = IF index = 0 THEN records \cup {new_record}
                           ELSE records
             /\ looped' = looped1
             /\ ctxs' = IF accept THEN [ctxs EXCEPT ![k] = SetPath(r.path)]
                        ELSE IF looped1 /\ changed
                        THEN [ctxs EXCEPT ![k] = RefusedPath(c, r.path)]
                        ELSE ctxs
             /\ last_changed' = IF accept THEN index ELSE last_changed
             /\ actions' = IF looped1 /\ ~accept THEN actions ELSE r.actions
             /\ IF stop
                THEN pc' = "commit" /\ index' = 0
                ELSE pc' = "stabilize" /\ index' = (index + 1) % Len(window)
  /\ UNCHANGED <<nodes, root, insts, instances, context_size, learning,
                 window, fixed, next_to_initialize, log, ops, calls,
                 context_key, tree_params, result>>

\* the pass as the model follows it, for MaxIter sweeps of one window
Stabilize == StabilizePass(TRUE)

\* the pass as the code runs it, for as many sweeps as it takes
StabilizeToEnd == StabilizePass(FALSE)

\* __create_instance(instance, window) on the window w of the heap H, for
\* the input position p and the path cobweb_path returned
CreateInstance(H, is, w, attrs, p, path) ==
  LET id == Len(H.ctxs) + 1
  IN [H |-> [H EXCEPT !.ctxs = Append(@, SetPath(path))],
      insts |-> Append(
         [k \in DOMAIN is |->
            IF k \in Range(w) THEN [is[k] EXCEPT !.ca = Append(@, id)]
            ELSE is[k]],
         [attrs |-> attrs, ca |-> w, pos |-> p]),
      window |-> Append(w, id)]

\* the position of `instances` the refill reads after a commit
RefillSlot(nti) == nti

\* lines 196-209, and the head of the next pass of `while window:`
Commit ==
  /\ pc = "commit"
  /\ LET k == PopLeftEntry(window)
         W == PopLeftRest(window)
         nti == next_to_initialize + 1
         H0 == Heap(nodes, root, ctxs)
     IN /\ next_to_initialize' = nti
        /\ \E attrs \in (IF learning THEN InstanceSet ELSE {Unread}) :
           LET inst == [insts[k] EXCEPT !.attrs = attrs]
               is1 == [insts EXCEPT ![k] = inst]
           IN
           /\ instances' = [instances EXCEPT ![inst.pos + 1] = attrs]
           /\ \E H1 \in (IF learning THEN AddByPath(H0, inst, k, actions, W)
                         ELSE {H0}) :
             /\ ops' = H1.ops
             /\ IF H1.err
                THEN /\ EnterLoop(H1, W)
                     /\ insts' = is1
                     /\ UNCHANGED <<fixed, log>>
                ELSE /\ fixed' = Append(fixed, IF learning
                                                THEN H1.ctxs[k].instance ELSE k)
                     /\ log' = Append(log, k)
                     /\ IF nti < Len(instances)
                        THEN \E path \in CobwebPath(H1.nodes, H1.root) :
                               LET ci == CreateInstance(H1, is1, W, Unread,
                                                        RefillSlot(nti), path)
                               IN /\ insts' = ci.insts
                                  /\ \E H2 \in WhileHead(ci.H, ci.window, nti) :
                                       EnterLoop(H2, ci.window)
                        ELSE /\ insts' = is1
                             /\ \E H2 \in WhileHead(H1, W, nti) :
                                  EnterLoop(H2, W)
  /\ UNCHANGED <<context_size, learning, calls, context_key, tree_params,
                 result>>

\* root.merge_contexts(depth_left) called between two fits
MergeContextsCall(depth_left) ==
  /\ pc = "done"
  /\ calls = MaxCalls
  /\ \E H1 \in MergeContexts(Heap(nodes, root, ctxs), depth_left) :
       /\ nodes' = H1.nodes
       /\ pc' = IF H1.err THEN "failed" ELSE pc
  /\ UNCHANGED <<root, ctxs, insts, instances, context_size, learning,
                 window, fixed, next_to_initialize, index, last_changed,
                 looped, records, iterations, window_cu, actions, log, ops, calls,
                 context_key, tree_params, result>>

Max(a, b) == IF a > b THEN a ELSE b

\* list[lo:hi] for lo >= 0 and hi >= 0
Slice(s, lo, hi) == SubSeq(s, lo + 1, Min(hi, Len(s)))

\* get_weighted_values(attr): the substrate's answer v is computed and
\* dropped (no return statement); [node, value]
GetWeightedValues(n, attr, v) ==
  [node |-> n,
   value |-> IF attr = ca_key THEN NotImplementedError ELSE PyNone]

\* predict that hands the question on to the substrate for every attribute
PredictNoRefusal(n, attr, v) == [node |-> n, value |-> PyNone]

\* predict(attr): the substrate's answer v is computed and dropped (no
\* return statement); [node, value]
Predict(n, attr, v) ==
  [node |-> n,
   value |-> IF attr = ca_key THEN NotImplementedError ELSE PyNone]

\* infer_from_context, lines 487-491, once the inner call has returned its
\* list `contexts` (fixed).  pred_ind, the index of the None slot, is read
\* from the input at entry and not used before this point; the model draws
\* it here.
InferReturn(pred_ind) ==
  /\ pc = "done"
  /\ ~learning
  /\ pc' = "returned"
  /\ \E path \in CobwebPath(nodes, root), v \in SubstrateValues :
       LET new_inst_ctx == Slice(fixed, Max(0, pred_ind - context_size),
                                pred_ind + context_size)
           category == path[Len(path)]
           r == Predict(nodes[category], "Anchor", v)
       IN /\ nodes' = [nodes EXCEPT ![category] = r.node]
          /\ result' = [NoResult EXCEPT !.op = "infer_from_context",
                                        !.attr = "Anchor",
                                        !.pred_ind = pred_ind,
                                        !.ctx = new_inst_ctx,
                                        !.path = path,
                                        !.value = r.value,
                                        !.substrate = v]
  /\ UNCHANGED <<root, ctxs, insts, instances, context_size, learning,
                 window, fixed, next_to_initialize, index, last_changed,
                 looped, records, iterations, window_cu, actions, log, ops, calls,
                 context_key, tree_params>>

\* ----------------------------------------------------------- queries
\* the instances a query is asked about: attribute dictionaries with or
\* without a context list over the handles that exist
QueryInstances ==
  LET lists == {<<>>} \cup {<<h>> : h \in DOMAIN ctxs}
                 \cup {<<h, g>> : h \in DOMAIN ctxs, g \in DOMAIN ctxs}
  IN {[attrs |-> a, pos |-> 0] : a \in InstanceSet}
       \cup {[attrs |-> a, ca |-> l, pos |-> 0] : a \in InstanceSet, l \in lists}

\* a query is made when the caller holds the tree; the model follows one
\* query between two calls
QueryAllowed == CallerHoldsTree /\ result.op = "none"

\* is_exact_match(instance) on a fresh leaf whose counts were built from
\* exactly that instance (increment_counts on a new node)
IsExactMatchCall(inst) ==
  /\ QueryAllowed
  /\ LET leaf == IncrementCounts(NewNode, inst)
     IN result' = [NoResult EXCEPT
                     !.op = "is_exact_match",
                     !.attr = IF HasCtx(inst) THEN ca_key ELSE "",
                     !.ctx = CtxOf(inst),
                     !.value = PyBool(IsExactMatch(leaf, inst))]
  /\ UNCHANGED <<nodes, root, ctxs, insts, pc, instances, context_size,
                 learning, window, fixed, next_to_initialize, index,
                 last_changed, looped, records, iterations, window_cu, actions, log,
                 ops, calls, context_key, tree_params>>

\* node.predict(attr) on the node id of the tree
PredictCall(id, attr, v) ==
  /\ QueryAllowed
  /\ LET r == Predict(nodes[id], attr, v)
     IN /\ nodes' = [nodes EXCEPT ![id] = r.node]
        /\ result' = [NoResult EXCEPT !.op = "predict", !.attr = attr,
                                      !.value = r.value, !.substrate = v]
  /\ UNCHANGED <<root, ctxs, insts, pc, instances, context_size,
                 learning, window, fixed, next_to_initialize, index,
                 last_changed, looped, records, iterations, window_cu, actions, log,
                 ops, calls, context_key, tree_params>>

\* node.get_weighted_values(attr) on the node id of the tree
GetWeightedValuesCall(id, attr, v) ==
  /\ QueryAllowed
  /\ LET r == GetWeightedValues(nodes[id], attr, v)
     IN /\ nodes' = [nodes EXCEPT ![id] = r.node]
        /\ result' = [NoResult EXCEPT !.op = "get_weighted_values",
                                      !.attr = attr,
                                      !.value = r.value, !.substrate = v]
  /\ UNCHANGED <<root, ctxs, insts, pc, instances, context_size,
                 learning, window, fixed, next_to_initialize, index,
                 last_changed, looped, records, iterations, window_cu, actions, log,
                 ops, calls, context_key, tree_params>>

\* cobweb_path(instance) called twice in a row for the same instance
CobwebPathTwice ==
  /\ QueryAllowed
  /\ \E r1 \in CobwebPathScoredFrom(nodes, root) :
       LET ns1 == Visited(nodes, r1.path)
       IN \E p2 \in CobwebPathReplayFrom(ns1, root, r1.scores) :
            /\ nodes' = Visited(ns1, p2)
            /\ result' = [NoResult EXCEPT !.op = "cobweb_path",
                                          !.path = r1.path, !.path2 = p2]
  /\ UNCHANGED <<root, ctxs, insts, pc, instances, context_size,
                 learning, window, fixed, next_to_initialize, index,
                 last_changed, looped, records, iterations, window_cu, actions, log,
                 ops, calls, context_key, tree_params>>

\* cobweb_path(instance) and cobweb_path_and_restructurings(instance) for
\* the same instance on the same tree
CobwebPathBoth ==
  /\ QueryAllowed
  /\ \E r1 \in CobwebPathScoredFrom(nodes, root) :
       \E r2 \in CobwebPathAndRestructuringsScoredFrom(nodes, root,
                                                       r1.scores) :
         result' = [NoResult EXCEPT
                      !.op = "cobweb_path_and_restructurings",
                      !.path = r1.path, !.path2 = r2.path,
                      !.actions = r2.actions]
  /\ UNCHANGED <<nodes, root, ctxs, insts, pc, instances, context_size,
                 learning, window, fixed, next_to_initialize, index,
                 last_changed, looped, records, iterations, window_cu,
                 actions, log, ops, calls, context_key, tree_params>>

\* ------------------------------------------- the contextual guesses
\* The utilities are fractions; the model keeps them as whole numbers of
\* 1/PathUnit, which every division of __exp_ctxt_helper on a tree of at
\* most depth_cap + 1 levels leaves whole (the divisors are 1..depth_cap + 2).
PathUnit == 840

\* the term of a leaf that divides by the path length plus one
AddedLeafTermLong(added_leaf_count, new_partial_guesses, new_partial_len) ==
  (added_leaf_count * new_partial_guesses * PathUnit)
    \div (new_partial_len + 1)

\* added_leaf_count * new_partial_guesses / new_partial_len (line 885)
AddedLeafTerm(added_leaf_count, new_partial_guesses, new_partial_len) ==
  (added_leaf_count * new_partial_guesses * PathUnit) \div new_partial_len

\* __exp_ctxt_helper(cur_node, partial_guesses, partial_len, ctxt) for the
\* counts cnt of the handles ctxt: the values it can return, in 1/PathUnit.
\* added_leaf_count is the count of the descendant the loop met last, which
\* is any of them.
RECURSIVE ExpCtxtHelper(_, _, _, _, _, _)
RECURSIVE ExpCtxtChildren(_, _, _, _, _, _)
ExpCtxtHelper(H, cnt, cur_node, partial_guesses, partial_len, ctxt) ==
  LET descendants == {wd \in ctxt : DescOf(H.nodes, H.ctxs[wd], cur_node)}
      ualeaves == {wd \in descendants : UnaddedLeaf(H.ctxs[wd], cur_node)}
      extra_guesses == SumOver(cnt, descendants)
      squared_ualeaf_count ==
        SumOver([wd \in ualeaves |-> cnt[wd] * cnt[wd]], ualeaves)
      cum_ualeaf_count == SumOver(cnt, ualeaves)
      added_leaf_counts ==
        IF descendants \ ualeaves = {} THEN {0}
        ELSE {cnt[wd] : wd \in descendants \ ualeaves}
      new_partial_guesses == partial_guesses + extra_guesses
      new_partial_len == partial_len + 1
      partial_cu ==
        IF cum_ualeaf_count # 0
        THEN ((cum_ualeaf_count * new_partial_guesses
               + squared_ualeaf_count) * PathUnit) \div (new_partial_len + 1)
        ELSE 0
  IN IF extra_guesses = 0 THEN {0}
     ELSE IF partial_len >= depth_cap \/ H.nodes[cur_node].children = <<>>
     THEN {AddedLeafTerm(a, new_partial_guesses, new_partial_len)
             + partial_cu : a \in added_leaf_counts}
     ELSE {partial_cu + below :
             below \in ExpCtxtChildren(H, cnt, H.nodes[cur_node].children,
                                       new_partial_guesses, new_partial_len,
                                       descendants)}

\* the sum of __exp_ctxt_helper over the children kids (lines 888-890)
ExpCtxtChildren(H, cnt, kids, partial_guesses, partial_len, ctxt) ==
  IF kids = <<>> THEN {0}
  ELSE {a + b :
          a \in ExpCtxtHelper(H, cnt, Head(kids), partial_guesses,
                              partial_len, ctxt),
          b \in ExpCtxtChildren(H, cnt, Tail(kids), partial_guesses,
                                partial_len, ctxt)}

\* __expected_contextual(cur_node, partial_guesses, partial_len, ctxt) at
\* the node self: the fractions num/den it can return
ExpectedContextual(H, self, cur_node, partial_guesses, partial_len, ctxt) ==
  IF H.nodes[self].context_size = 0 THEN {[num |-> 0, den |-> 1]}
  ELSE {[num |-> v,
         den |-> PathUnit * H.nodes[self].context_size
                   * H.nodes[self].context_size] :
          v \in ExpCtxtHelper(H, ctxt, cur_node, partial_guesses,
                              partial_len, DOMAIN ctxt)}

\* the contextual term of expected_correct_guesses at the node id of the
\* tree (lines 752-753)
ExpectedContextualCall(id) ==
  /\ QueryAllowed
  /\ \E g \in ExpectedContextual(Heap(nodes, root, ctxs), id, root, 0, 0,
                                  nodes[id].ctxCounts) :
       result' = [NoResult EXCEPT !.op = "expected_contextual",
                                  !.node = id, !.guesses = g]
  /\ UNCHANGED <<nodes, root, ctxs, insts, pc, instances, context_size,
                 learning, window, fixed, next_to_initialize, index,
                 last_changed, looped, records, iterations, window_cu,
                 actions, log, ops, calls, context_key, tree_params>>

\* the attributes a caller asks predictions about
QueryAttrs == Attrs \cup {ca_key, "Anchor"}

\* the possible_ops the callers pass (lines 297, 327, 408) and the default
PossibleOps ==
  {{"best", "new"}, {"split", "merge"}, {"best", "new", "merge", "split"}}

\* node.get_best_operation(instance, best1, best2, best1_cu, possible_ops)
\* on the node id of the tree, best1 one of its children and best2 another
\* one or None; score holds the utilities the substrate gives for
\* cu_for_new_child, cu_for_merge and cu_for_split
GetBestOperationCall(id, best1, best2, best1_cu, possible_ops, score) ==
  /\ QueryAllowed
  /\ best1 \in Range(nodes[id].children)
  /\ best2 \in (Range(nodes[id].children) \ {best1}) \cup {None}
  /\ LET bo == GetBestOperation(nodes[id], nodes, best1, best2, best1_cu,
                                possible_ops, score)
     IN result' =
          [NoResult EXCEPT
             !.op = "get_best_operation",
             !.value = bo.op,
             !.operation =
               [node |-> id, best1 |-> best1, best2 |-> best2,
                possible_ops |-> possible_ops,
                scored |-> OperationsScored(nodes[id], nodes, best1, best2,
                                            possible_ops),
                cus |-> [o \in Operations |->
                           IF o = "best" THEN best1_cu ELSE score[o]],
                cu |-> bo.cu]]
  /\ UNCHANGED <<nodes, root, ctxs, insts, pc, instances, context_size,
                 learning, window, fixed, next_to_initialize, index,
                 last_changed, looped, records, iterations, window_cu,
                 actions, log, ops, calls, context_key, tree_params>>

Next ==
  \/ \E n \in 0..MaxLen, cs \in 0..MaxCtx, key \in ContextKeys :
       ContextualIfit(n, cs, key)
  \/ \E n \in 0..MaxLen, cs \in 0..MaxCtx, key \in ContextKeys :
       InferFromContext(n, cs, key)
  \/ Stabilize
  \/ Commit
  \/ \E pred_ind \in 0..MaxLen : pred_ind <= Len(instances)
                                  /\ InferReturn(pred_ind)
  \/ \E d \in 0..MaxMergeDepth : MergeContextsCall(d)

Spec == Init /\ [][Next]_vars

\* The queries on the trees that learning calls of up to two instances
\* build.
QueryNext ==
  \/ \E n \in 0..2, cs \in 0..MaxCtx :
       ContextualIfit(n, cs, "symmetric_window")
  \/ Stabilize
  \/ Commit
  \/ \E inst \in QueryInstances : IsExactMatchCall(inst)
  \/ \E id \in TreeNodes(nodes, root), attr \in QueryAttrs,
        v \in SubstrateValues : PredictCall(id, attr, v)
  \/ \E id \in TreeNodes(nodes, root), attr \in QueryAttrs,
        v \in SubstrateValues : GetWeightedValuesCall(id, attr, v)
  \/ CobwebPathTwice

QuerySpec == Init /\ [][QueryNext]_vars

\* ------------------------------------------------------------- clear()
\* a clear() that runs the constructor again with its default arguments
ClearedParamsByInit(t) ==
  [context_weight |-> 1, scaling |-> "0.5", inner_attr_scaling |-> TRUE,
   attr_scales |-> {}]

\* what clear() leaves of the tree's parameters (line 95)
ClearedParams(t) == [t EXCEPT !.attr_scales = {}]

\* clear(), lines 92-95: a new root node; the nodes of the old tree stay
\* with whoever still holds them.  The model follows one clear between two
\* calls.
Clear ==
  /\ CallerHoldsTree
  /\ pc # "cleared"
  /\ pc' = "cleared"
  /\ LET id == Len(nodes) + 1
     IN /\ nodes' = Append(nodes, [NewNode EXCEPT !.descendants = {id}])
        /\ root' = id
  /\ tree_params' = ClearedParams(tree_params)
  /\ result' = NoResult
  /\ UNCHANGED <<ctxs, insts, instances, context_size, learning, window,
                 fixed, next_to_initialize, index, last_changed, looped,
                 records, iterations, window_cu, actions, log, ops, calls,
                 context_key>>

ClearInit ==
  \E ctxt_weight \in Weights, scaling \in Scalings,
     inner_attr_scaling \in BOOLEAN :
    Construct(ctxt_weight, scaling, inner_attr_scaling)

ClearNext ==
  \/ \E n \in 0..2, cs \in 0..MaxCtx :
       ContextualIfit(n, cs, "symmetric_window")
  \/ Stabilize
  \/ Commit
  \/ Clear

ClearSpec == ClearInit /\ [][ClearNext]_vars

\* ------------------------------------------- get_best_operation on trees
OperationNext ==
  \/ \E n \in 0..2, cs \in 0..MaxCtx :
       ContextualIfit(n, cs, "symmetric_window")
  \/ Stabilize
  \/ Commit
  \/ /\ QueryAllowed
     /\ \E id \in TreeNodes(nodes, root) :
          \E best1 \in Range(nodes[id].children),
             best2 \in Range(nodes[id].children) \cup {None},
             best1_cu \in CUVals, possible_ops \in PossibleOps,
             score \in [Operations \ {"best"} -> CUVals] :
            GetBestOperationCall(id, best1, best2, best1_cu, possible_ops,
                                 score)

OperationSpec == Init /\ [][OperationNext]_vars

\* ------------------------------------------------------ the loop to its end
\* Calls whose stabilization loop runs for as many sweeps as it takes.
LoopLen == 2

LoopNext ==
  \/ \E n \in 0..LoopLen : ContextualIfit(n, MaxCtx, "symmetric_window")
  \/ StabilizeToEnd
  \/ Commit

LoopSpec == Init /\ [][LoopNext]_vars

\* a**b
RECURSIVE Power(_, _)
Power(a, b) == IF b = 0 THEN 1 ELSE a * Power(a, b - 1)

\* the sweeps one window can take: the tuples `records` can hold (one tree
\* node per window entry), the strict increases of __cu_for_window from the
\* sweep that sees the repeat on, and the sweep that comes round to the
\* position changed last
SweepBound ==
  Power(Cardinality(TreeNodes(nodes, root)), Len(window)) + MaxCU + 1

\* ------------------------------------------------------- a wider window
\* One instance learned, then a call whose window holds three handles: the
\* smallest run in which two handles are still unadded after a commit.
WideNext ==
  \/ \E cs \in 0..MaxCtx :
       calls = 0 /\ ContextualIfit(1, cs, "symmetric_window")
  \/ calls = 1 /\ ContextualIfit(MaxLen, MaxCtx + 1, "symmetric_window")
  \/ StabilizeToEnd
  \/ Commit

WideSpec == Init /\ [][WideNext]_vars

\* ------------------------------------------------------------ properties
Pos(k) == insts[k].pos

Tree == TreeNodes(nodes, root)

\* the call has not been aborted by an assertion or an exception
Completed == pc # "failed"

\* sum of the counts of the children of node id
ChildrenCount(id) ==
  LET ch == nodes[id].children
  IN SumOver([i \in DOMAIN ch |-> nodes[ch[i]].count], DOMAIN ch)

\* sum of the per-value counts of attribute a at node id
ValueCount(id, a) == SumOver(nodes[id].av[a], Vals)

\* the committed handles whose leaf lies at or below node id
CommittedBelow(id) ==
  {h \in DOMAIN ctxs :
     ~ctxs[h].unadded /\ id \in Ancestors(nodes, ctxs[h].instance)}

\* the handles held in some instance's context list or counted at a node of
\* the tree
HeldHandles ==
  UNION {Range(insts[k].ca) : k \in DOMAIN insts}
    \cup UNION {DOMAIN nodes[id].ctxCounts : id \in Tree}

\* C1: a learning call returns one entry per input instance, and every input
\* position is committed exactly once.
C1_OneEntryPerInstance ==
  (pc = "done" /\ learning) =>
     /\ Len(fixed) = Len(instances)
     /\ \A p \in 0..(Len(instances) - 1) :
          Cardinality({i \in DOMAIN log : Pos(log[i]) = p}) = 1

\* C2: within a call the commits go in strictly increasing input position:
\* the committed positions increase, everything still in the window comes
\* later in the input than everything committed, and the window itself is in
\* input order, so that its left-most entry is the earliest one.
C2_CommitOrder ==
  /\ \A i, j \in DOMAIN log : i < j => Pos(log[i]) < Pos(log[j])
  /\ \A i \in DOMAIN log, j \in DOMAIN window : Pos(log[i]) < Pos(window[j])
  /\ \A i, j \in DOMAIN window : i < j => Pos(window[i]) < Pos(window[j])

C2_Witness ==
  /\ pc = "done"
  /\ learning
  /\ Len(log) = 2
  /\ Pos(log[1]) < Pos(log[2])

\* C3: after every commit, every node of the tree that has children has a
\* count equal to the sum of its children's counts.
C3_CountIsSumOfChildren ==
  Completed =>
    \A id \in Tree :
      nodes[id].children # <<>> => nodes[id].count = ChildrenCount(id)

C3_Witness ==
  /\ Completed
  /\ "merge" \in ops
  /\ \E id \in Tree : Len(nodes[id].children) = 2 /\ nodes[id].parent = root

\* C4: after every commit, every committed handle held in a context list or
\* counted at a node of the tree references a node that is in the tree and
\* has no children.
C4_CommittedHandlesAtLeaves ==
  Completed =>
    \A h \in HeldHandles :
      ~ctxs[h].unadded =>
        /\ ctxs[h].instance \in Tree
        /\ nodes[ctxs[h].instance].children = <<>>

C4_Witness ==
  /\ Completed
  /\ "split" \in ops
  /\ \E h \in HeldHandles : ~ctxs[h].unadded
  /\ \E n \in DOMAIN nodes : n \notin Tree

\* C5: between commits, the tentative path of every unadded handle of the
\* window holds only nodes that are in the tree (it is the node set of a
\* root-to-leaf chain of the current tree).
C5_PathInTree ==
  \A i \in DOMAIN window :
    ctxs[window[i]].unadded => ctxs[window[i]].tenative_path \subseteq Tree

\* C6: a node without children never acquires children.
C6_LeafStaysLeaf ==
  [][\A n \in DOMAIN nodes :
       nodes[n].children = <<>> => nodes'[n].children = <<>>]_vars

C6_Witness ==
  /\ "fringe" \in ops
  /\ nodes[1].parent # None
  /\ nodes[1].children = <<>>
  /\ nodes[1].count > 0

\* C7: after every commit and every merge_contexts, the counts of the
\* context attribute of every node of the tree sum to its context_size.
C7_ContextCountsSum ==
  Completed =>
    \A id \in Tree :
      CounterTotal(nodes[id].ctxCounts) = nodes[id].context_size

C7_Witness ==
  /\ Completed
  /\ nodes[root].context_size > 1
  /\ \E id \in Tree :
       /\ nodes[id].children = <<>>
       /\ nodes[id].count > 0
       /\ nodes[id].context = None

\* C8: after every commit, the descendants registry of every node with
\* children is the union of the registries of its children, and a leaf that
\* holds a committed instance is in its own registry.
C8_DescendantsRegistry ==
  Completed =>
    \A id \in Tree :
      /\ nodes[id].children # <<>> =>
           nodes[id].descendants =
             UNION {nodes[nodes[id].children[i]].descendants :
                      i \in DOMAIN nodes[id].children}
      /\ (nodes[id].children = <<>> /\ CommittedBelow(id) # {}) =>
           id \in nodes[id].descendants

C8_Witness ==
  /\ Completed
  /\ ops = {"fringe", "split"}
  /\ Cardinality(nodes[root].descendants) = 3

\* C9 as the specification states it: at every node, the per-value counts of
\* every attribute recorded there sum to the node's count.
C9_ValueCountsSumToCount ==
  Completed =>
    \A id \in Tree :
      \A a \in NodeAttrs(nodes[id]) : ValueCount(id, a) = nodes[id].count

\* C9, amended: at every node, the per-value counts of an attribute sum to
\* the number of instances committed at or below the node that carry the
\* attribute; that is the node's count when all of them carry it.
C9_ValueCountsSumToCarriers ==
  Completed =>
    \A id \in Tree, a \in Attrs :
      ValueCount(id, a) =
        Cardinality({h \in CommittedBelow(id) : a \in DOMAIN insts[h].attrs})

C9_Witness ==
  /\ Completed
  /\ \E a \in Attrs :
       /\ ValueCount(root, a) = 2
       /\ nodes[root].count = 3

\* C10: the context list of a committed instance at position k holds exactly
\* the handles of the positions k - context_size .. k + context_size of the
\* input other than k, each once.
C10_ContextIsWindow ==
  learning =>
  \A i \in DOMAIN log :
    LET k == log[i]
        ca == insts[k].ca
    IN /\ {Pos(ca[j]) : j \in DOMAIN ca} =
            {p \in 0..(Len(instances) - 1) :
               /\ p # Pos(k)
               /\ p >= Pos(k) - context_size
               /\ p <= Pos(k) + context_size}
       /\ \A j1, j2 \in DOMAIN ca : ca[j1] = ca[j2] => j1 = j2
       /\ k \notin Range(ca)

\* C11: a first learning call whose instances all carry the same attribute
\* values ends with a tree that is a single leaf whose count is the input
\* length (so that no fringe split was performed).
C11_IdenticalGiveSingleLeaf ==
  (/\ pc = "done"
   /\ learning
   /\ calls = 1
   /\ Len(log) = Len(instances)
   /\ \A i, j \in DOMAIN log :
        insts[log[i]].attrs = insts[log[j]].attrs) =>
     /\ nodes[root].children = <<>>
     /\ nodes[root].count = Len(instances)
     /\ Tree = {root}

\* C12: is_exact_match(instance) returns true on a leaf whose counts were
\* built from exactly that instance, whether the instance has a context list
\* (empty or not) or none.
C12_FreshLeafMatches ==
  result.op = "is_exact_match" => result.value = PyBool(TRUE)

\* the part of C12 the code keeps: instances without a context list
C12_NoCtxMatches ==
  (result.op = "is_exact_match" /\ result.attr = "") =>
     result.value = PyBool(TRUE)

\* the part of C12 the code breaks: with a context list the answer is false
C12_CtxNeverMatches ==
  (result.op = "is_exact_match" /\ result.attr = ca_key) =>
     result.value = PyBool(FALSE)

\* the shape a fringe split leaves when no merge or split follows it in the
\* same commit: k is the committed handle, L the leaf it targeted
FringeSplitShape ==
  LET k == PopLeftEntry(window)
      L == ctxs[k].instance
      gp == nodes[L].parent
      P == nodes'[L].parent
      leaf == ctxs'[k].instance
  IN /\ nodes[L].children = <<>>
     /\ nodes[L].count > 0
     /\ P \in DOMAIN nodes' \ DOMAIN nodes
     /\ leaf \in DOMAIN nodes' \ DOMAIN nodes
     /\ nodes'[P].parent = gp
     /\ IF gp = None
        THEN root = L /\ root' = P
        ELSE /\ root' = root
             /\ nodes'[gp].children =
                  [nodes[gp].children EXCEPT
                     ![IndexOf(nodes[gp].children, L)] = P]
     /\ nodes'[P].children = <<L, leaf>>
     /\ nodes'[P].count = nodes[L].count + 1
     /\ nodes'[leaf] =
          [IncrementCounts(NewNode, insts'[k]) EXCEPT
             !.parent = P, !.descendants = {leaf}, !.context = k]
     /\ nodes'[L] = [nodes[L] EXCEPT !.parent = P]

\* C13: a commit on a leaf with count > 0 that is not an exact match puts a
\* new node P where the leaf L stood, with the two children L and a new
\* leaf of count 1 built from the instance, leaves L's counts as they were
\* and gives P the count of L plus one; two instances committed to an empty
\* tree give a root of count 2 with two leaves of count 1.
C13_FringeSplit ==
  /\ [][(pc = "commit" /\ learning /\ ops' = {"fringe"}) =>
          FringeSplitShape]_vars
  /\ [](( calls = 1 /\ learning /\ Len(log) = 2 /\ Completed) =>
          /\ nodes[root].count = 2
          /\ Len(nodes[root].children) = 2
          /\ \A i \in DOMAIN nodes[root].children :
               /\ nodes[nodes[root].children[i]].count = 1
               /\ nodes[nodes[root].children[i]].children = <<>>)

C13_Witness ==
  /\ ops = {"fringe"}
  /\ Len(log) >= 1
  /\ LET leaf == ctxs[log[Len(log)]].instance
         P == nodes[leaf].parent
     IN /\ P # root
        /\ P \in Tree
        /\ Len(nodes[P].children) = 2
        /\ nodes[P].count = 2

\* C15: infer_from_context returns the value the substrate predicts for
\* 'Anchor' at the last node of cobweb_path(synthetic instance): predict on
\* an attribute other than the context attribute hands back the substrate's
\* value.
C15_InferReturnsPrediction ==
  result.op = "infer_from_context" => result.value = result.substrate

\* C16: the context list of the synthetic instance of infer_from_context
\* holds exactly the handles of the input instances at most context_size
\* positions to the left and at most context_size positions to the right of
\* the None slot.  Position q of the input is position q of the list handed
\* to the inner call when q is left of the slot, and q - 1 when it is right.
C16_SyntheticContext ==
  result.op = "infer_from_context" =>
    LET p == result.pred_ind
        near == {q \in 0..Len(instances) :
                   q # p /\ q >= p - context_size /\ q <= p + context_size}
        inner == {IF q < p THEN q ELSE q - 1 : q \in near}
    IN /\ {Pos(result.ctx[i]) : i \in DOMAIN result.ctx} = inner
       /\ \A i, j \in DOMAIN result.ctx :
            result.ctx[i] = result.ctx[j] => i = j

\* C17: a call with a context_key other than 'symmetric_window' is rejected
\* with an error before the tree, a node or an instance is modified.
C17_KeyRejected ==
  [][(calls' = calls + 1 /\ context_key' # "symmetric_window") =>
       /\ pc' = "rejected"
       /\ UNCHANGED <<nodes, root, ctxs, insts, instances>>]_vars

C17_Witness ==
  /\ pc = "rejected"
  /\ context_key = "past_window"
  /\ nodes[root].count = 2
  /\ Len(nodes[root].children) = 2

\* C18: a call with a non-positive context_size is rejected at entry, so
\* that no call ever runs with one.
C18_NonPositiveSizeRejected ==
  pc \in {"stabilize", "commit", "done", "returned", "failed"} =>
    context_size > 0

\* C19: predict and get_weighted_values asked about the context attribute
\* end in NotImplementedError and leave the node and the tree as they were.
C19_ContextPredictionRefused ==
  [][(/\ result.op = "none"
      /\ result'.op \in {"predict", "get_weighted_values"}
      /\ result'.attr = ca_key) =>
       /\ result'.value = NotImplementedError
       /\ UNCHANGED <<nodes, root, ctxs, insts>>]_vars

C19_Witness ==
  /\ result.op = "predict"
  /\ result.attr = ca_key
  /\ result.value = NotImplementedError
  /\ nodes[root].count = 2
  /\ nodes[root].hasCtx

\* C20: cobweb_path called twice in a row for the same instance returns
\* equal paths, and neither call changes the tree, a node's counts or a
\* context handle.
C20_CobwebPathReadOnly ==
  [][(result.op = "none" /\ result'.op = "cobweb_path") =>
       /\ result'.path = result'.path2
       /\ UNCHANGED <<nodes, root, ctxs, insts>>]_vars

C20_Witness ==
  /\ result.op = "cobweb_path"
  /\ Len(result.path) = 2
  /\ result.path2 = result.path
  /\ Len(nodes[root].children) = 2

\* C14: the stabilization loop of contextual_cobweb eventually breaks for
\* every tree and every window: the cycle stays on the window's positions
\* (each step either breaks or moves on to the next position, counting
\* `iterations` up at position 0), and the sweeps of one window are
\* bounded: at most one per tuple of handle positions until a tuple repeats,
\* then at most one per strict increase of the window utility, and one more
\* to come round to the position that changed last.
C14_LoopTerminates ==
  pc = "stabilize" =>
    /\ index \in 0..(Len(window) - 1)
    /\ iterations <= SweepBound

C14_Witness ==
  /\ pc = "commit"
  /\ looped
  /\ iterations > MaxIter
  /\ window_cu # NotComputed
  /\ Len(window) = 2
  /\ Len(nodes[root].children) = 2

\* C23: an input of at most context_size + 1 instances is the initial
\* window as a whole, the window is never refilled (it only shrinks, by one
\* entry per commit), and every instance of the input is committed: when
\* the call has ended there is one committed entry per input instance, in
\* input order.
C23_ShortInputCommitted ==
  /\ [][(calls' = calls + 1 /\ pc' # "rejected"
           /\ Len(instances') <= context_size' + 1) =>
          /\ Len(window') = Len(instances')
          /\ \A i \in DOMAIN window' : insts'[window'[i]].pos = i - 1]_vars
  /\ [][(pc = "commit" /\ Len(instances) <= context_size + 1) =>
          Len(window') <= Len(window)]_vars
  /\ []((pc \in {"done", "failed"} /\ Len(instances) <= context_size + 1) =>
          /\ Len(fixed) = Len(instances)
          /\ Len(log) = Len(instances)
          /\ \A i \in DOMAIN log : insts[log[i]].pos = i - 1)

\* the same for the calls that return: what is left of C23 when no commit
\* raises
ShortInputOneWindow ==
  /\ [][(calls' = calls + 1 /\ pc' # "rejected"
           /\ Len(instances') <= context_size' + 1) =>
          /\ Len(window') = Len(instances')
          /\ \A i \in DOMAIN window' : insts'[window'[i]].pos = i - 1]_vars
  /\ [][(pc = "commit" /\ Len(instances) <= context_size + 1) =>
          (pc' # "failed" => window' = Tail(window))]_vars
  /\ []((pc = "done" /\ Len(instances) <= context_size + 1) =>
          /\ Len(fixed) = Len(instances)
          /\ Len(log) = Len(instances)
          /\ \A i \in DOMAIN log : insts[log[i]].pos = i - 1)

\* position of an operation in the order best, new, split, merge
OrderOfClaim(op) ==
  CASE op = "best" -> 1 [] op = "new" -> 2 [] op = "split" -> 3
    [] op = "merge" -> 4 [] OTHER -> 5

\* C24: get_best_operation scores 'best' and 'new' when asked for them,
\* 'merge' only when the node has at least 3 children and best2 exists,
\* 'split' only when best1 has children; it returns the scored operation of
\* the highest category utility with that utility, and among scored
\* operations of equal utility the first in the order best, new, split,
\* merge.
C24_BestOperation ==
  result.op = "get_best_operation" =>
    LET c == result.operation
        expected ==
          {o \in c.possible_ops :
             \/ o \in {"best", "new"}
             \/ o = "merge" /\ Len(nodes[c.node].children) >= 3
                            /\ c.best2 # None
             \/ o = "split" /\ nodes[c.best1].children # <<>>}
    IN /\ c.scored = expected
       /\ expected # {} =>
            /\ result.value \in expected
            /\ c.cu = c.cus[result.value]
            /\ \A o \in expected :
                 \/ c.cus[o] < c.cu
                 \/ /\ c.cus[o] = c.cu
                    /\ OrderOfClaim(result.value) <= OrderOfClaim(o)

C24_Witness ==
  /\ result.op = "get_best_operation"
  /\ result.operation.scored = Operations
  /\ \A o \in Operations : result.operation.cus[o] = result.operation.cu
  /\ result.value = "best"

\* C25: clear() replaces the tree by a single empty root leaf, a new node
\* of count 0 without children and without parent that is registered in its
\* own descendants, and leaves ctxt_weight, scaling and inner_attr_scaling
\* as they were.
C25_ClearResets ==
  [][(pc # "cleared" /\ pc' = "cleared") =>
       /\ root' \notin DOMAIN nodes
       /\ root' \in DOMAIN nodes'
       /\ TreeNodes(nodes', root') = {root'}
       /\ nodes'[root'].count = 0
       /\ nodes'[root'].children = <<>>
       /\ nodes'[root'].parent = None
       /\ nodes'[root'].descendants = {root'}
       /\ \A a \in Attrs, v \in Vals : nodes'[root'].av[a][v] = 0
       /\ tree_params'.context_weight = tree_params.context_weight
       /\ tree_params'.scaling = tree_params.scaling
       /\ tree_params'.inner_attr_scaling = tree_params.inner_attr_scaling]_vars

C25_Witness ==
  /\ pc = "cleared"
  /\ tree_params.context_weight = 0
  /\ tree_params.scaling = "False"
  /\ ~tree_params.inner_attr_scaling
  /\ root > 3
  /\ nodes[root].count = 0
  /\ \E id \in DOMAIN nodes : nodes[id].count = 2

\* the nodes a step removes from the tree, the best1 of each split; the
\* node may have been made by the fringe split of the same commit
Discarded ==
  (DOMAIN nodes' \ TreeNodes(nodes', root'))
    \ (DOMAIN nodes \ TreeNodes(nodes, root))

\* C26: after a commit that splits best1, no handle of the window
\* references the discarded node any more, neither as its instance nor as a
\* member of its tentative path.
C26_SplitLeavesNoReference ==
  [][(pc = "commit" /\ "split" \in ops') =>
       \A i \in DOMAIN Tail(window) :
         LET c == ctxs'[Tail(window)[i]]
         IN /\ c.instance \notin Discarded
            /\ c.tenative_path \cap Discarded = {}]_vars

\* the part of C26 the code keeps: no handle of the window has a discarded
\* node as its instance
SplitMovesInstance ==
  [][(pc = "commit" /\ "split" \in ops') =>
       \A i \in DOMAIN Tail(window) :
         ctxs'[Tail(window)[i]].instance \notin Discarded]_vars

\* ------------------------------------------------------ a window of four
\* One instance learned, then a call whose window holds four handles: the
\* smallest run in which a commit leaves three unadded handles.  The model
\* follows MaxIter + 1 sweeps of each window, and a call up to its commit
\* number FourCommits.
FourCommits == 2

FourNext ==
  \/ calls = 0 /\ ContextualIfit(1, 0, "symmetric_window")
  \/ calls = 1 /\ ContextualCobwebUpTo(MaxLen + 1, MaxCtx + 2,
                                       "symmetric_window", TRUE,
                                       MaxInstances + 1)
  \/ /\ Len(fixed) < FourCommits
     /\ index = 0 => iterations < MaxIter + 1
     /\ StabilizeToEnd
  \/ Len(fixed) < FourCommits /\ Commit

FourSpec == Init /\ [][FourNext]_vars

\* C27: when the commit at hand fringe-splits leaf L, then right after
\* __fringe_split_update (before any further cobweb_path call) every unadded
\* handle of the window whose instance was L has the new parent of L as its
\* instance and in its tentative path, and every other handle of the window
\* is unchanged.
C27_FringeSplitRewrites ==
  (pc = "commit" /\ learning) =>
    \A attrs \in InstanceSet :
      LET k == PopLeftEntry(window)
          W == PopLeftRest(window)
          H0 == Heap(nodes, root, ctxs)
          inst == [insts[k] EXCEPT !.attrs = attrs]
          L == ctxs[k].instance
      IN IsFringeSplit(H0, inst, k) =>
           LET H3 == FringeSplit(H0, inst, k, W)
           IN \A i \in DOMAIN W :
                LET c == ctxs[W[i]]
                    c3 == H3.ctxs[W[i]]
                IN IF c.unadded /\ c.instance = L
                   THEN /\ c3.instance = H3.nodes[L].parent
                        /\ c3.instance \notin DOMAIN nodes
                        /\ c3.instance \in c3.tenative_path
                   ELSE c3 = c

\* a Counter read at a key it may lack
CountAt(counter, x) == IF x \in DOMAIN counter THEN counter[x] ELSE 0

\* the merge nodes a step makes: the new nodes that took over two children
MergeNodes == {m \in DOMAIN nodes' \ DOMAIN nodes : nodes'[m].children # <<>>}

\* the merge nodes a step puts above a node the handle c passed through
MergedAbove(c) ==
  {m \in MergeNodes : Range(nodes'[m].children) \cap c.tenative_path # {}}

\* C28: a commit that merges best1 and best2 under the new node M (and does
\* no fringe split and no split) leaves every unadded handle of the window
\* whose tentative path contained best1 or best2 with M added to its path and
\* its instance unchanged, leaves every other handle of the window
\* unchanged, and gives M the sums of the counts and of the counts of the
\* context attribute of best1 and best2 and the union of their descendants.
C28_MergeRewrites ==
  [][(/\ pc = "commit"
      /\ pc' # "failed"
      /\ ops' \cap {"merge", "split", "fringe"} = {"merge"}) =>
       /\ MergeNodes # {}
       /\ \A i \in DOMAIN Tail(window) :
            LET h == Tail(window)[i]
            IN /\ h \in DOMAIN ctxs'
               /\ ctxs'[h] = [ctxs[h] EXCEPT
                                !.tenative_path = @ \cup MergedAbove(ctxs[h])]
       /\ \A m \in MergeNodes :
            LET M == nodes'[m]
            IN /\ Len(M.children) = 2
               /\ M.children[1] # M.children[2]
               /\ \A j \in 1..2 : /\ M.children[j] \in DOMAIN nodes
                                  /\ nodes'[M.children[j]].parent = m
               /\ LET best1 == nodes'[M.children[1]]
                      best2 == nodes'[M.children[2]]
                  IN /\ M.count = best1.count + best2.count
                     /\ M.descendants = best1.descendants \cup best2.descendants
                     /\ \A x \in DOMAIN M.ctxCounts \cup DOMAIN best1.ctxCounts
                                   \cup DOMAIN best2.ctxCounts :
                          CountAt(M.ctxCounts, x) =
                            CountAt(best1.ctxCounts, x)
                              + CountAt(best2.ctxCounts, x)]_vars

C28_Witness ==
  /\ pc = "stabilize"
  /\ ops = {"new", "merge"}
  /\ \E m \in Tree :
       /\ Len(nodes[m].children) = 2
       /\ nodes[m].parent # None
       /\ \E i \in DOMAIN window :
            /\ ctxs[window[i]].unadded
            /\ m \in ctxs[window[i]].tenative_path
            /\ ctxs[window[i]].instance # m

\* the tuple of handle targets the pass at position 0 records
NewRecord == [i \in DOMAIN window |-> ctxs[window[i]].instance]

\* C29: within the stabilization of one window, once the tuple of handle
\* targets recorded at position 0 repeats the loop is in looped mode and
\* stays in it until the commit; a pass in looped mode changes at most the
\* handle at hand, and only to a path that makes the window's category
\* utility strictly larger, and otherwise leaves every handle's tentative
\* path and instance exactly as they were.
C29_LoopedMode ==
  [][pc = "stabilize" =>
       /\ looped => looped'
       /\ (index = 0 /\ NewRecord \in records) => looped'
       /\ looped' =>
            \/ ctxs' = ctxs /\ window_cu' >= window_cu
            \/ /\ \A i \in DOMAIN window :
                    i # index + 1 => ctxs'[window[i]] = ctxs[window[i]]
               /\ window_cu' # NotComputed
               /\ window_cu' > window_cu
               /\ window_cu' > 0]_vars

\* looped mode with a change refused (the utility was computed, the loop
\* went on) and then a change accepted
C29_Witness ==
  /\ pc = "stabilize"
  /\ looped
  /\ window_cu = MaxCU
  /\ Len(window) = 2
  /\ \E i \in DOMAIN window :
       Cardinality(ctxs[window[i]].tenative_path) = 2

\* the recorded level t fits the heap H: current is a node of the tree and
\* best1 and best2 (when there is one) are two of its children
LevelSound(H, t) ==
  /\ t.current \in TreeNodes(H.nodes, H.root)
  /\ t.best1 \in Range(H.nodes[t.current].children)
  /\ t.best2 # None =>
       /\ t.best2 \in Range(H.nodes[t.current].children)
       /\ t.best2 # t.best1

\* every level increment_and_restructure comes to, from acts[i] down to
\* acts[1], fits the heap it finds, whatever the levels before it did
RECURSIVE LevelsSound(_, _, _, _)
LevelsSound(H, acts, W, i) ==
  IF i = 0 \/ H.err THEN TRUE
  ELSE /\ LevelSound(H, acts[i])
       /\ \A H1 \in RestructureLevel(H, acts[i], W) :
            LevelsSound(H1, acts, W, i - 1)

\* C30: in the commit at hand, every recorded level (current, action_cu,
\* best1_cu, best2, best1) that increment_and_restructure processes names a
\* current that is a node of the tree and a best1 and best2 that are distinct
\* children of it, after any restructuring at the deeper levels and after
\* the fringe split the commit may have begun with.
C30_LevelsSound ==
  (pc = "commit" /\ learning) =>
    \A attrs \in InstanceSet :
      LET k == PopLeftEntry(window)
          W == PopLeftRest(window)
          inst == [insts[k] EXCEPT !.attrs = attrs]
          a == AddLeaf(Heap(nodes, root, ctxs), inst, k, actions, W)
      IN ~a.H.err =>
           LevelsSound(
             [a.H EXCEPT !.nodes =
                IncrementAllCounts(a.H.nodes, a.where_to_add, inst)],
             a.actions, W, Len(a.actions))

\* a commit that begins with a fringe split, has two recorded levels, and
\* can split or merge at the deeper one before it comes to the upper one
C30_Witness ==
  /\ pc = "commit"
  /\ learning
  /\ Len(actions) = 2
  /\ \E attrs \in InstanceSet :
       LET k == PopLeftEntry(window)
           W == PopLeftRest(window)
           inst == [insts[k] EXCEPT !.attrs = attrs]
           a == AddLeaf(Heap(nodes, root, ctxs), inst, k, actions, W)
           H == [a.H EXCEPT !.nodes =
                   IncrementAllCounts(a.H.nodes, a.where_to_add, inst)]
       IN /\ ~a.H.err
          /\ "fringe" \in a.H.ops
          /\ \E H1 \in RestructureLevel(H, a.actions[2], W) :
               ~H1.err /\ H1.ops \cap {"split", "merge"} # {}
\* the tree below id without its node identities and without the counts of
\* the context attribute: shape, node counts, counts of the other attributes
RECURSIVE Shape(_, _)
Shape(ns, id) ==
  [count |-> ns[id].count,
   av |-> ns[id].av,
   children |-> [i \in DOMAIN ns[id].children |->
                   Shape(ns, ns[id].children[i])]]

\* how often the instance x has value v for attribute a
Has(x, a, v) == IF a \in DOMAIN x /\ x[a] = v THEN 1 ELSE 0

\* a root over one leaf for x and one leaf for y
TwoLeaves(x, y) ==
  LET LeafOf(z) == [count |-> 1,
                    av |-> [a \in Attrs |-> [v \in Vals |-> Has(z, a, v)]],
                    children |-> <<>>]
  IN [count |-> 2,
      av |-> [a \in Attrs |-> [v \in Vals |-> Has(x, a, v) + Has(y, a, v)]],
      children |-> <<LeafOf(x), LeafOf(y)>>]

\* contextual_ifit([x, y]) on a new tree has returned
OneCallOfTwo ==
  /\ pc = "done" /\ learning /\ calls = 1
  /\ Len(instances) = 2 /\ context_size >= 1

\* contextual_ifit([x]) and then contextual_ifit([y]) on a new tree have
\* returned
TwoCallsOfOne ==
  /\ pc = "done" /\ learning /\ calls = 2
  /\ Len(instances) = 1 /\ Len(insts) = 2
  /\ \A k \in DOMAIN ctxs : ~ctxs[k].unadded

\* C21: on a new tree, contextual_ifit([x]) followed by contextual_ifit([y])
\* and the single call contextual_ifit([x, y]) (context_size at least 1, as
\* the default is) leave trees of the same shape with the same node counts
\* and the same counts of the attributes other than the context: in both
\* cases a root counted twice over a leaf for x and a leaf for y.
C21_TwoCallsAsOne ==
  /\ OneCallOfTwo =>
       /\ Len(fixed) = 2
       /\ Shape(nodes, root) = TwoLeaves(instances[1], instances[2])
  /\ TwoCallsOfOne =>
       /\ Len(fixed) = 1
       /\ Shape(nodes, root) = TwoLeaves(insts[1].attrs, instances[1])

\* both ways of learning two different instances have been followed, and
\* the counts of the context attribute differ between them
C21_Witness ==
  /\ TwoCallsOfOne
  /\ insts[1].attrs # instances[1]
  /\ \A n \in Tree : DOMAIN nodes[n].ctxCounts = {}

\* standard Cobweb3 insertion of x and then y into a new tree, without node
\* identities: x is counted at the empty root; y meets a root that is a
\* leaf, and is counted there when the leaf matches it exactly, and put
\* beside it by a fringe split when it does not.  The instances carry no
\* context attribute.
Cobweb3OfTwo(x, y) ==
  LET first == IncrementCounts(NewNode, [attrs |-> x])
      both == IncrementCounts(first, [attrs |-> y])
  IN IF IsExactMatch(first, [attrs |-> y])
     THEN [count |-> both.count, av |-> both.av, children |-> <<>>]
     ELSE TwoLeaves(x, y)

\* C22: with context_weight = 0, contextual_ifit of two instances on a new
\* tree leaves the tree that standard Cobweb3 insertion of the same two
\* instances leaves: the same shape, node counts and counts of the
\* attributes other than the context.
C22_ZeroWeightIsCobweb3 ==
  (tree_params.context_weight = 0 /\ OneCallOfTwo /\ Len(fixed) = 2) =>
    Shape(nodes, root) = Cobweb3OfTwo(instances[1], instances[2])

\* the part of C22 the code keeps: two instances that differ
ZeroWeightDistinct ==
  (/\ tree_params.context_weight = 0 /\ OneCallOfTwo /\ Len(fixed) = 2
   /\ instances[1] # instances[2]) =>
    Shape(nodes, root) = Cobweb3OfTwo(instances[1], instances[2])

\* the levels acts[order[1]], acts[order[2]], ... processed one after the
\* other, each on the heap the one before it left, until one raises
RECURSIVE LevelsInOrder(_, _, _, _)
LevelsInOrder(H, acts, W, order) ==
  IF order = <<>> \/ H.err THEN {H}
  ELSE UNION {LevelsInOrder(H1, acts, W, Tail(order)) :
              H1 \in RestructureLevel(H, acts[Head(order)], W)}

\* Len(acts), ..., 1: the deepest recorded level first
DeepestFirst(acts) == [i \in DOMAIN acts |-> Len(acts) + 1 - i]

\* what one level did to the heap: nothing, one merge (one node made and
\* put into the tree), or one split (one node taken out of the tree)
LevelDid(H, H1) ==
  LET made == DOMAIN H1.nodes \ DOMAIN H.nodes
      before == TreeNodes(H.nodes, H.root)
      after == TreeNodes(H1.nodes, H1.root)
  IN IF H1.nodes = H.nodes THEN "nothing"
     ELSE IF Cardinality(made) = 1 /\ after = before \cup made THEN "merge"
     ELSE IF made = {} /\ after \subseteq before
             /\ Cardinality(before \ after) = 1 THEN "split"
     ELSE "more"

\* the level t on the heap H keeps the rules of the loop body
LevelRuled(H, t, W) ==
  LET cur == H.nodes[t.current]
      skipped == Len(cur.children) <= 2 /\ Len(H.nodes[t.best1].children) = 0
  IN \A H1 \in RestructureLevel(H, t, W) :
       /\ LevelDid(H, H1) # "more"
       /\ skipped => H1 = H
       /\ t.action_cu >= MaxCU => LevelDid(H, H1) = "nothing"
       /\ LevelDid(H, H1) = "merge" => "merge" \in H1.ops
       /\ LevelDid(H, H1) = "split" => "split" \in H1.ops

RECURSIVE LevelsRuled(_, _, _, _)
LevelsRuled(H, acts, W, i) ==
  IF i = 0 \/ H.err THEN TRUE
  ELSE /\ LevelRuled(H, acts[i], W)
       /\ \A H1 \in RestructureLevel(H, acts[i], W) :
            LevelsRuled(H1, acts, W, i - 1)

\* C31: in the commit at hand the recorded levels are processed from the
\* deepest to the shallowest, each level does at most one merge or one
\* split, a level whose current has at most two children and whose best1 is
\* a leaf does nothing, and a level restructures only when the operation
\* scores strictly above the action_cu recorded for it (never when that is
\* the highest score there is).
C31_RestructureRules ==
  (pc = "commit" /\ learning) =>
    \A attrs \in InstanceSet :
      LET k == PopLeftEntry(window)
          W == PopLeftRest(window)
          inst == [insts[k] EXCEPT !.attrs = attrs]
          a == AddLeaf(Heap(nodes, root, ctxs), inst, k, actions, W)
          H == [a.H EXCEPT !.nodes =
                  IncrementAllCounts(a.H.nodes, a.where_to_add, inst)]
      IN ~a.H.err =>
           /\ LevelsRuled(H, a.actions, W, Len(a.actions))
           /\ RestructureFrom(H, a.actions, W, Len(a.actions))
                = LevelsInOrder(H, a.actions, W, DeepestFirst(a.actions))

\* a commit with two recorded levels that can restructure at the deeper one
\* and then again at the upper one
C31_Witness ==
  /\ pc = "commit"
  /\ learning
  /\ Len(actions) = 2
  /\ \E attrs \in InstanceSet :
       LET k == PopLeftEntry(window)
           W == PopLeftRest(window)
           inst == [insts[k] EXCEPT !.attrs = attrs]
           a == AddLeaf(Heap(nodes, root, ctxs), inst, k, actions, W)
           H == [a.H EXCEPT !.nodes =
                   IncrementAllCounts(a.H.nodes, a.where_to_add, inst)]
       IN /\ ~a.H.err
          /\ \E H1 \in RestructureLevel(H, a.actions[2], W) :
               /\ ~H1.err
               /\ LevelDid(H, H1) # "nothing"
               /\ \E H2 \in RestructureLevel(H1, a.actions[1], W) :
                    ~H2.err /\ LevelDid(H1, H2) # "nothing"


\* ------------------------------------------- the two descents side by side
\* The two descents on the trees that learning calls of up to two instances
\* build.
PathNext ==
  \/ \E n \in 0..2, cs \in 0..MaxCtx :
       ContextualIfit(n, cs, "symmetric_window")
  \/ Stabilize
  \/ Commit
  \/ CobwebPathBoth

PathSpec == Init /\ [][PathNext]_vars

\* C32: on the same tree and instance cobweb_path_and_restructurings
\* returns the node path cobweb_path returns, with one action tuple for
\* every visited node that has children (as many as the path is long when
\* the descent stops with "new" at a node with children, one fewer when it
\* stops at a leaf), the tuple of a level naming the path node of that level
\* as its current.
C32_SamePathOneActionPerLevel ==
  result.op = "cobweb_path_and_restructurings" =>
    /\ result.path2 = result.path
    /\ Len(result.actions) =
         Cardinality({i \in DOMAIN result.path :
                        nodes[result.path[i]].children # <<>>})
    /\ Len(result.actions) =
         (IF nodes[result.path[Len(result.path)]].children # <<>>
          THEN Len(result.path) ELSE Len(result.path) - 1)
    /\ \A i \in DOMAIN result.actions :
         /\ i \in DOMAIN result.path
         /\ result.actions[i].current = result.path[i]

\* both descents went two levels down and stopped with "new" at a node
\* with children
C32_Witness ==
  /\ result.op = "cobweb_path_and_restructurings"
  /\ Len(result.path) = 2
  /\ result.path2 = result.path
  /\ Len(result.actions) = 2
  /\ nodes[result.path[2]].children # <<>>

\* both descents went down to a leaf below the root
PathsEndAtLeaf ==
  /\ result.op = "cobweb_path_and_restructurings"
  /\ Len(result.path) >= 2
  /\ Len(result.actions) = Len(result.path) - 1
  /\ nodes[result.path[Len(result.path)]].children = <<>>

\* ---------------------------------------------------- an aborted commit
\* the instances a tree holds: its leaves, each with its count
Holdings(ns, r) ==
  {[leaf |-> id, count |-> ns[id].count] :
     id \in {x \in TreeNodes(ns, r) : ns[x].children = <<>>}}

\* C33: when an assertion or an exception aborts the call in the middle of
\* a commit, the tree is as the last completed commit left it: it holds the
\* instances it held before the failing commit began and no other, and
\* every node with children has a count equal to the sum of its children's
\* counts.
C33_AbortedCommitLeavesTree ==
  [][(pc = "commit" /\ pc' = "failed") =>
       /\ Holdings(nodes', root') = Holdings(nodes, root)
       /\ \A id \in TreeNodes(nodes', root') :
            nodes'[id].children # <<>> =>
              nodes'[id].count = ChildrenCount(id)']_vars

\* ------------------------------------------------ the exit of the loop
\* the nodes a stored path can end at: those with no child in the path
PathEnds(ns, path) == {x \in path : \A y \in path : ns[y].parent # x}

\* C34: when the stabilization loop exits, the node add_by_path will insert
\* the head instance at (the instance of the head handle) is the last node
\* of the path the handle stores, and the handle at which the loop exits,
\* whose recomputed path is judged equal to its stored one, has the last
\* node of that recomputed path as its instance, also after a fringe split,
\* a merge or a split of an earlier commit rewrote the handle.
C34_ExitInstanceIsPathEnd ==
  /\ (pc = "commit" /\ window # <<>>) =>
       LET c == ctxs[window[1]]
       IN PathEnds(nodes, c.tenative_path) = {c.instance}
  /\ (pc = "stabilize" /\ last_changed = index) =>
       LET c == ctxs[window[index + 1]]
       IN \A p \in CobwebPath(nodes, root) :
            PathEq(c.tenative_path, p) => c.instance = p[Len(p)]

\* C35: in every call of __fringe_split_update(L, window) every window
\* handle is unadded, and every window handle whose tentative path holds L
\* has L as its instance: neither assertion of __fringe_split_update fails.
C35_FringeSplitUpdateAsserts ==
  (pc = "commit" /\ learning) =>
    LET k == PopLeftEntry(window)
        W == PopLeftRest(window)
        H == Heap(nodes, root, ctxs)
        L == ctxs[k].instance
    IN \A attrs \in InstanceSet :
         (/\ IsFringeSplit(H, [insts[k] EXCEPT !.attrs = attrs], k)
          /\ ~InsertParentWithCurrentCounts(H, L).err) =>
           \A i \in DOMAIN W :
             /\ Unadded(ctxs[W[i]])
             /\ L \in ctxs[W[i]].tenative_path => UnaddedLeaf(ctxs[W[i]], L)

\* ------------------------------------------ the restructuring assertions
\* C36: after every commit every node with children has at least two of
\* them, and the restructuring loop of a commit never raises: a level that
\* selects "split" has a best1 with more than one child, a level that
\* selects "merge" a current with more than two children, and every level
\* that is not skipped has an operation to score.
C36_TwoChildrenNoAssert ==
  /\ Completed =>
       \A id \in Tree :
         nodes[id].children # <<>> => Len(nodes[id].children) >= 2
  /\ (pc = "commit" /\ learning) =>
       \A attrs \in InstanceSet :
         LET k == PopLeftEntry(window)
             W == PopLeftRest(window)
             inst == [insts[k] EXCEPT !.attrs = attrs]
             a == AddLeaf(Heap(nodes, root, ctxs), inst, k, actions, W)
         IN ~a.H.err =>
              \A H1 \in IncrementAndRestructure(a.H, inst, a.where_to_add,
                                               a.actions, W) : ~H1.err

\* the outcomes of the commit at hand that restructured by op
CommitOutcomes(op) ==
  UNION {LET k == PopLeftEntry(window)
             W == PopLeftRest(window)
             inst == [insts[k] EXCEPT !.attrs = attrs]
             a == AddLeaf(Heap(nodes, root, ctxs), inst, k, actions, W)
         IN IF a.H.err THEN {}
            ELSE {H1 \in IncrementAndRestructure(a.H, inst, a.where_to_add,
                                                 a.actions, W) :
                    op \in H1.ops} :
         attrs \in InstanceSet}

\* a commit about to merge two children of a node with more than two
C36_Witness ==
  /\ pc = "commit"
  /\ learning
  /\ \E H1 \in CommitOutcomes("merge") :
       /\ ~H1.err
       /\ \A id \in TreeNodes(H1.nodes, H1.root) :
            H1.nodes[id].children # <<>> => Len(H1.nodes[id].children) >= 2

\* a commit about to split a node with more than one child
CommitSplits ==
  /\ pc = "commit"
  /\ learning
  /\ \E H1 \in CommitOutcomes("split") : ~H1.err

\* ------------------------------------------- a call that does not learn
\* the number of levels between node id and the root
RECURSIVE Level(_, _)
Level(ns, id) ==
  IF ns[id].parent = None THEN 0 ELSE 1 + Level(ns, ns[id].parent)

\* the height of the tree below the root r
Height(ns, r) ==
  LET levels == {Level(ns, id) : id \in TreeNodes(ns, r)}
  IN CHOOSE m \in levels : \A x \in levels : x <= m

\* the instances given to the deep run (it skips the one at context_size + 1)
DeepLen == 11

\* every commit so far put its instance beside the leaf of the commit
\* before it, one level further down
GrowsDeeper ==
  /\ 2 * Height(nodes, root) + 1 = Cardinality(TreeNodes(nodes, root))
  /\ pc # "failed"
  /\ \A id \in TreeNodes(nodes, root) :
       nodes[id].children # <<>> =>
         nodes[id].children[1] = id - 1 /\ Len(nodes[id].children) = 2

\* the handle h is routed to a leaf at the lowest level of the tree
RoutedDeepest(h) ==
  /\ nodes[ctxs[h].instance].children = <<>>
  /\ Cardinality(ctxs[h].tenative_path) = Height(nodes, root) + 1

\* the instances of the input read so far are equal
EqualInstances ==
  \A i, j \in DOMAIN log :
    instances[Pos(log[i]) + 1] = instances[Pos(log[j]) + 1]

\* the descent of the head found "best" scoring highest at every level
ScoresBest ==
  \A i \in DOMAIN actions :
    actions[i].action_cu = MaxCU /\ actions[i].best1_cu = MaxCU

\* One learning call of equal instances, each routed below the deepest
\* leaf, so that the tree is merge_depth + 1 levels high, and then a call with
\* learning off whose next_to_initialize starts at compaction_period.
DeepNext ==
  \/ /\ calls = 0
     /\ ContextualCobwebUpTo(DeepLen, MaxCtx, "symmetric_window", TRUE,
                             DeepLen)
  \/ Stabilize /\ ScoresBest' /\ RoutedDeepest(window[index + 1])'
  \/ Commit /\ GrowsDeeper' /\ EqualInstances'
  \/ /\ calls = 1
     /\ pc = "done"
     /\ ContextualCobwebUpTo(1, compaction_period - 1, "symmetric_window",
                             FALSE, DeepLen + 1)

DeepSpec == Init /\ [][DeepNext]_vars

\* what the claim lists of a node
NodeFrame(n) ==
  [count |-> n.count, av |-> n.av, ctxCounts |-> n.ctxCounts,
   context_size |-> n.context_size, children |-> n.children,
   parent |-> n.parent, descendants |-> n.descendants]

\* C37: every step of a contextual_cobweb call with learning = False, from
\* its entry to its last commit, leaves the tree as it is, for every input
\* length and context_size: no node is created or removed,
\* and no node's count, av_counts (the CTX counts included), context_size,
\* children, parent or descendants changes.
C37_InferenceLeavesTree ==
  [][(~learning' /\ (calls' # calls \/ pc \in {"stabilize", "commit"})) =>
       /\ DOMAIN nodes' = DOMAIN nodes
       /\ root' = root
       /\ \A id \in DOMAIN nodes :
            NodeFrame(nodes'[id]) = NodeFrame(nodes[id])]_vars

\* ------------------------------------------ the contextual term, in closed form
\* The contextual term asked of the nodes of the trees that learning calls
\* build.
GuessNext ==
  \/ \E n \in 0..MaxLen, cs \in 0..MaxCtx :
       ContextualIfit(n, cs, "symmetric_window")
  \/ Stabilize
  \/ Commit
  \/ \E id \in TreeNodes(nodes, root) : ExpectedContextualCall(id)

GuessSpec == Init /\ [][GuessNext]_vars

\* the root-to-leaf path of the committed handle w
HandlePath(w) == Ancestors(nodes, ctxs[w].instance)

\* every handle counted at node id is committed to a leaf of the tree, and
\* the tree is no deeper than depth_cap
HandlesCommitted(id) ==
  /\ \A w \in DOMAIN nodes[id].ctxCounts :
       /\ w \in DOMAIN ctxs
       /\ ~ctxs[w].unadded
       /\ ctxs[w].instance \in Tree
       /\ nodes[ctxs[w].instance].children = <<>>
  /\ Height(nodes, root) <= depth_cap

\* the total multiplicity of the handles of node id whose path passes
\* through the node c
Through(id, c) ==
  LET m == nodes[id].ctxCounts
  IN SumOver(m, {v \in DOMAIN m : c \in HandlePath(v)})

\* sum over the handles w of node id of m_w times the sum over the nodes of
\* w's path of the multiplicity through them, divided by the path length;
\* in 1/PathUnit
PathGuesses(id) ==
  LET m == nodes[id].ctxCounts
      term(w) ==
        LET path == HandlePath(w)
            through == [c \in path |-> Through(id, c)]
        IN (m[w] * SumOver(through, path) * PathUnit) \div Cardinality(path)
  IN SumOver([w \in DOMAIN m |-> term(w)], DOMAIN m)

\* C38: for a node N whose CTX handles are all committed, on a tree no
\* deeper than depth_cap, the contextual term the recursive descent computes
\* is 1 / context_size^2 times the sum over the handles w of m_w times the
\* sum over the nodes of w's root-to-leaf path of the multiplicity of N's
\* handles passing through them, divided by the length of the path; and it
\* is 0 when N.context_size is 0.
C38_ContextualTermClosedForm ==
  (result.op = "expected_contextual" /\ HandlesCommitted(result.node)) =>
    LET N == nodes[result.node]
    IN IF N.context_size = 0 THEN result.guesses.num = 0
       ELSE /\ result.guesses.num = PathGuesses(result.node)
            /\ result.guesses.den
                 = PathUnit * N.context_size * N.context_size

\* the term was computed for a node that counts two handles committed at
\* different depths of the tree
C38_Witness ==
  /\ result.op = "expected_contextual"
  /\ HandlesCommitted(result.node)
  /\ result.guesses.num > 0
  /\ \E v, w \in DOMAIN nodes[result.node].ctxCounts :
       /\ nodes[result.node].ctxCounts[v] > 0
       /\ nodes[result.node].ctxCounts[w] > 0
       /\ Cardinality(HandlePath(v)) < Cardinality(HandlePath(w))

====
